---- MODULE Spec2Model ----
(***************************************************************************)
(* Planning analysis service of octus_be: the /planning/analyze handler    *)
(* (main.py), the PlanningService pipeline (planning_service.py) and the   *)
(* analysers it sequences (velocity_calculator.py, workload_analyzer.py,   *)
(* dependency_analyzer.py, risk_engine.py, recommendation_engine.py,       *)
(* ai_summary_generator.py).                                               *)
(*                                                                         *)
(* Python floats are IEEE-754 doubles.  Where the code truncates a double  *)
(* with int(), the model computes the double's value with integer          *)
(* arithmetic (quotient remainders, offsets in units of 2^-56) instead of  *)
(* replacing it by the real number it approximates.                        *)
(***************************************************************************)
EXTENDS Integers, Sequences, FiniteSets, TLC

VARIABLES
    dependency_graph,   \* DependencyAnalyzer.dependency_graph of the one PlanningService
    reverse_graph,      \* DependencyAnalyzer.reverse_graph of the one PlanningService
    pc,                 \* per request slot: position of its handler
    req,                \* per request slot: the PlanningRequest being handled
    loc,                \* per request slot: local variables of analyze_planning
    resp,               \* per request slot: the HTTP response
    history,            \* the handled requests with their responses, oldest first
    args,               \* arguments of the function under unit check
    ret                 \* its result

vars == <<dependency_graph, reverse_graph, pc, req, loc, resp,
          history, args, ret>>

svcVars == <<dependency_graph, reverse_graph, pc, req, loc, resp, history>>
unitVars == <<args, ret>>

None == "None"

\* ---------------------------------------------------------------- bounds
MaxTasks == 2
MaxRuns == 2
MaxSprintSixteenths == 40
MaxPlanned == 2
MaxDaysAhead == 22
MaxDaysOverdue == 2
MaxDeps == 3
MaxListed == 3
MaxCycle == 3
MaxMembers == 2
MaxAssigned == 12
MaxCapacity == 8
MaxAdvised == 3
MaxPrioritized == 4
MaxRated == 6
MaxBlocked == 4
MaxHistory == 3
MaxChained == 3
\* the nested frames after which a call raises RecursionError, scaled down
\* from the interpreter's limit; more than a chain of MaxChained tasks needs
RecursionLimit == 6

\* ------------------------------------------------------- generic helpers
Min(a, b) == IF a <= b THEN a ELSE b
Max(a, b) == IF a >= b THEN a ELSE b
Min3(a, b, c) == Min(Min(a, b), c)

RECURSIVE SumSeq(_)
SumSeq(s) == IF s = <<>> THEN 0 ELSE Head(s) + SumSeq(Tail(s))

RECURSIVE GCD(_, _)
GCD(a, b) == IF b = 0 THEN a ELSE GCD(b, a % b)

\* s[-n:] of Python
LastN(s, n) == IF Len(s) <= n THEN s ELSE SubSeq(s, Len(s) - n + 1, Len(s))
\* s[:n] of Python
FirstN(s, n) == IF Len(s) <= n THEN s ELSE SubSeq(s, 1, n)

\* a rational num/den in lowest terms
Rat(n, d) == LET g == GCD(n, d) IN [num |-> n \div g, den |-> d \div g]
Inf == [num |-> 1, den |-> 0]
IsInf(q) == q.den = 0

\* -------------------------------------------------- double arithmetic
RECURSIVE Log2Up(_, _, _)
Log2Up(N, D, e) == IF N >= D * 2^(e + 1) THEN Log2Up(N, D, e + 1) ELSE e
RECURSIVE Log2Down(_, _, _)
Log2Down(N, D, k) == IF N * 2^k < D THEN Log2Down(N, D, k + 1) ELSE 0 - k
\* the e with 2^e <= N/D < 2^(e+1), for N, D > 0
FloorLog2(N, D) == IF N >= D THEN Log2Up(N, D, 0) ELSE Log2Down(N, D, 1)

\* Binary long division: the remainder and the last quotient bit after
\* `steps` further bits.
RECURSIVE LongDiv(_, _, _, _)
LongDiv(rem, D, bit, steps) ==
    IF steps = 0 THEN [rem |-> rem, bit |-> bit]
    ELSE IF 2 * rem >= D THEN LongDiv(2 * rem - D, D, 1, steps - 1)
         ELSE LongDiv(2 * rem, D, 0, steps - 1)

\* The double N / D (N, D > 0 integers) is the quotient rounded to 53
\* significant bits (the leading one and 52 more), ties to even:
\* N/D = fl(N/D) + (rho/den) * 2^(e-52).
DivErr(N, D) ==
    LET Rounded(e, Dp, ld) ==
            LET up == \/ 2 * ld.rem > Dp
                      \/ (2 * ld.rem = Dp /\ ld.bit = 1)
            IN  [e |-> e, rho |-> IF up THEN ld.rem - Dp ELSE ld.rem, den |-> Dp]
        Scaled(e) ==
            LET Np == IF e < 0 THEN N * 2^(0 - e) ELSE N
                Dp == IF e > 0 THEN D * 2^e ELSE D
            IN  Rounded(e, Dp, LongDiv(Np - Dp, Dp, 1, 52))
    IN  Scaled(FloorLog2(N, D))

\* int((N / D - sub) * k) of Python for integers N > sub * D >= 0, D > 0,
\* k >= 0: the quotient is rounded to a double, the subtraction of the
\* integer sub is exact, the product is rounded again and int() truncates.
\* When the real product k*(N - sub*D)/D is not whole the roundings cannot
\* reach the next integer; when it is a whole n, the double is below n
\* exactly if the quotient was rounded down by more than half the spacing
\* of doubles below n.
IntScaledQuotient(N, D, sub, k) ==
    LET Q == k * (N - sub * D) IN
    IF k = 0 \/ N = 0 THEN 0
    ELSE IF Q % D # 0 THEN Q \div D
    ELSE LET Truncated(n, de, E) ==
                 LET d == 0 - ((k * de.rho) \div de.den)
                     Eb == IF n > 2^E THEN E ELSE E - 1
                     m == Min(de.e, Eb)
                 IN  IF d >= 0 THEN n
                     ELSE IF 2 * (0 - d) * 2^(de.e - m) <= 2^(Eb - m) THEN n ELSE n - 1
         IN  Truncated(Q \div D, DivErr(N, D), FloorLog2(Q \div D, 1))

\* A double that is a sum of products of integers with the literals 0.25,
\* 0.20, 0.10 is held as [t, o]: its value is (t * K + o) * 2^-56 where
\* 2^54 = 5 * K + 4, that is t/20 + (o - 0.8 * t) * 2^-56.
KMod2048 == CHOOSE k \in 0..2047 : (5 * k + 4) % 2048 = 0

Lit025 == [t |-> 5, o |-> 4]     \* 0.25 = 2^54 * 2^-56
Lit020 == [t |-> 4, o |-> 4]     \* 0.20 as a double is 0x1.999999999999ap-3
Lit010 == [t |-> 2, o |-> 2]     \* 0.10 as a double is 0x1.999999999999ap-4

DblBinade(f) ==
    LET Binade(e0) ==
            LET pow == IF e0 < 0 THEN f.t * 2^(0 - e0) = 20 ELSE f.t = 20 * 2^e0
            IN  IF pow /\ 5 * f.o < 4 * f.t THEN e0 - 1 ELSE e0
    IN  Binade(FloorLog2(f.t, 20))

\* round to 53 significant bits, ties to even
DblRound(f) ==
    IF f.t = 0 THEN f
    ELSE LET Rounded(e) ==
                 IF e + 4 < 1 THEN f
                 ELSE LET G == 2^(e + 4)
                          r == (f.t * (KMod2048 % (2 * G)) + f.o) % (2 * G)
                          low == r % G
                      IN  IF 2 * low < G \/ (2 * low = G /\ r < G)
                          THEN [t |-> f.t, o |-> f.o - low]
                          ELSE [t |-> f.t, o |-> f.o + G - low]
         IN  Rounded(DblBinade(f))

DblMul(x, w) == DblRound([t |-> x * w.t, o |-> x * w.o])
DblAdd(f, g) == DblRound([t |-> f.t + g.t, o |-> f.o + g.o])
\* int() of a non-negative double
DblInt(f) == (f.t \div 20) - (IF f.t % 20 = 0 /\ 5 * f.o < 4 * f.t THEN 1 ELSE 0)

\* ------------------------------------------------------------ data model
\* TaskInput: [id, assignee, dueDate, storyPoints, status, dependencies].
\* assignee is a name or None; dueDate is <<>> (absent) or <<d>> with d the
\* whole days from the current date to the due date; a task's name is its id.
\* TeamMember: [name, capacity].  PlanningRequest: [tasks, team_capacity,
\* velocity_history].

\* {task.id: task.status for task in tasks}.get(id, 'todo'); a later task
\* with the same id overwrites an earlier one
RECURSIVE StatusOf(_, _)
StatusOf(tasks, id) ==
    IF tasks = <<>> THEN "todo"
    ELSE IF tasks[Len(tasks)].id = id THEN tasks[Len(tasks)].status
    ELSE StatusOf(SubSeq(tasks, 1, Len(tasks) - 1), id)

\* ---------------------------------------------------- VelocityCalculator
CalculateAverageVelocity(velocity_history) ==
    IF velocity_history = <<>> THEN Rat(0, 1)
    ELSE LET recent_sprints == LastN(velocity_history, 3)
         IN  Rat(SumSeq(recent_sprints), Len(recent_sprints))

\* the comparisons of the doubles previous_avg +- previous_avg * 0.1 with
\* the integer last_sprint, as comparisons of integers
CalculateVelocityTrend(velocity_history) ==
    LET n == Len(velocity_history)
        last_sprint == velocity_history[n]
        previous == SumSeq(SubSeq(velocity_history, 1, n - 1))
    IN  IF n < 2 THEN "unknown"
        ELSE IF n < 3
        THEN IF velocity_history[n] > velocity_history[n - 1] THEN "increasing"
             ELSE IF velocity_history[n] < velocity_history[n - 1] THEN "decreasing"
             ELSE "stable"
        ELSE IF 10 * (n - 1) * last_sprint > 11 * previous THEN "increasing"
        ELSE IF 10 * (n - 1) * last_sprint < 9 * previous THEN "decreasing"
        ELSE "stable"

CalculateSprintCapacity(team_capacity) ==
    SumSeq([i \in 1..Len(team_capacity) |-> team_capacity[i].capacity])

CalculateCompletedVelocity(tasks) ==
    SumSeq([i \in 1..Len(tasks) |->
               IF tasks[i].status = "done" THEN tasks[i].storyPoints ELSE 0])

CalculateRemainingStoryPoints(tasks) ==
    SumSeq([i \in 1..Len(tasks) |->
               IF tasks[i].status # "done" THEN tasks[i].storyPoints ELSE 0])

\* remaining_points / average_velocity, the double nearest to the rational
CalculateSprintsNeeded(remaining_points, average_velocity) ==
    IF average_velocity.num = 0 THEN Inf
    ELSE Rat(remaining_points * average_velocity.den, average_velocity.num)

\* the second argument analyze_planning passes to calculate_sprints_needed
SprintsDivisorMut(average_velocity, sprint_capacity) == average_velocity
SprintsDivisor(average_velocity, sprint_capacity) ==
    IF average_velocity.num > 0 THEN average_velocity ELSE Rat(sprint_capacity, 1)

\* predict_release_delay: [error, value]; int() of an infinite double raises
\* OverflowError
PredictReleaseDelay(sprints_needed, planned_sprints) ==
    IF IsInf(sprints_needed) THEN [error |-> "OverflowError", value |-> 0]
    ELSE IF sprints_needed.num <= planned_sprints * sprints_needed.den
    THEN [error |-> None, value |-> 0]
    ELSE [error |-> None,
          value |-> IntScaledQuotient(sprints_needed.num, sprints_needed.den,
                                      planned_sprints, 14)]

\* ------------------------------------------------------------ RiskEngine
CalculateDeadlineRisk(due_date) ==
    IF due_date = <<>> THEN 30
    ELSE LET days_until_due == due_date[1] IN
         IF days_until_due < 0 THEN 100
         ELSE IF days_until_due <= 2 THEN 90
         ELSE IF days_until_due <= 5 THEN 70
         ELSE IF days_until_due <= 10 THEN 50
         ELSE IF days_until_due <= 20 THEN 30
         ELSE 10

CalculateComplexityRisk(story_points) ==
    IF story_points <= 1 THEN 5
    ELSE IF story_points <= 3 THEN 20
    ELSE IF story_points <= 5 THEN 40
    ELSE IF story_points <= 8 THEN 60
    ELSE IF story_points <= 13 THEN 80
    ELSE 95

CalculateDependencyRiskMut(dependencies, tasks) ==
    IF dependencies = <<>> THEN 0
    ELSE LET IsTodo(dep_id) == StatusOf(tasks, dep_id) = "todo"
             blocked_count == Len(SelectSeq(dependencies, IsTodo))
         IN  IF blocked_count = 0 THEN 0
             ELSE Min(IntScaledQuotient(100, Len(dependencies), 0, blocked_count), 100)
CalculateDependencyRisk(dependencies, tasks) ==
    IF dependencies = <<>> THEN 0
    ELSE LET IsOpen(dep_id) == StatusOf(tasks, dep_id) # "done"
             blocked_count == Len(SelectSeq(dependencies, IsOpen))
         IN  IF blocked_count = 0 THEN 0
             ELSE Min(IntScaledQuotient(100, Len(dependencies), 0, blocked_count), 100)

CalculateOverloadRisk(assignee, workload_percentage) ==
    IF assignee = None THEN 40
    ELSE IF workload_percentage <= 70 THEN 10
    ELSE IF workload_percentage <= 90 THEN 30
    ELSE IF workload_percentage <= 100 THEN 50
    ELSE IF workload_percentage <= 120 THEN 75
    ELSE 95

\* current_velocity is an integer, average_velocity a rational whose double
\* is exact; the double quotient compares with the literals 1.0, 0.8, 0.6
\* as the rational does
CalculateVelocityRisk(current_velocity, average_velocity) ==
    IF average_velocity.num = 0 THEN 20
    ELSE LET n == current_velocity * average_velocity.den
             d == average_velocity.num
         IN  IF n >= d THEN 0
             ELSE IF 5 * n >= 4 * d THEN 30
             ELSE IF 5 * n >= 3 * d THEN 60
             ELSE 90

\* the weighted sum as Python evaluates it, left to right, in doubles
WeightedTotal(deadline_risk, complexity_risk, dependency_risk, overload_risk, velocity_risk) ==
    DblAdd(DblAdd(DblAdd(DblAdd(DblMul(deadline_risk, Lit025),
                                DblMul(complexity_risk, Lit025)),
                         DblMul(dependency_risk, Lit020)),
                  DblMul(overload_risk, Lit020)),
           DblMul(velocity_risk, Lit010))

CalculateTotalRisk(deadline_risk, complexity_risk, dependency_risk, overload_risk, velocity_risk) ==
    Min(DblInt(WeightedTotal(deadline_risk, complexity_risk, dependency_risk,
                             overload_risk, velocity_risk)), 100)

CategorizeRiskLevelMut(risk_score) ==
    IF risk_score > 70 THEN "critical"
    ELSE IF risk_score > 50 THEN "high"
    ELSE IF risk_score > 30 THEN "moderate"
    ELSE "low"
CategorizeRiskLevel(risk_score) ==
    IF risk_score >= 70 THEN "critical"
    ELSE IF risk_score >= 50 THEN "high"
    ELSE IF risk_score >= 30 THEN "moderate"
    ELSE "low"

\* ------------------------------------------------------ WorkloadAnalyzer
\* The dict assignee -> points in insertion order, as a sequence of
\* [assignee, points]; tasks without assignee are summed under 'Unassigned'.
RECURSIVE AddWorkload(_, _, _)
AddWorkload(workload, assignee, points) ==
    IF workload = <<>> THEN <<[assignee |-> assignee, points |-> points]>>
    ELSE IF Head(workload).assignee = assignee
         THEN <<[assignee |-> assignee, points |-> Head(workload).points + points]>>
              \o Tail(workload)
    ELSE <<Head(workload)>> \o AddWorkload(Tail(workload), assignee, points)

RECURSIVE WorkloadFrom(_, _)
WorkloadFrom(tasks, workload) ==
    IF tasks = <<>> THEN workload
    ELSE LET task == Head(tasks) IN
         IF task.status = "done" THEN WorkloadFrom(Tail(tasks), workload)
         ELSE WorkloadFrom(Tail(tasks),
                 AddWorkload(workload,
                             IF task.assignee = None THEN "Unassigned" ELSE task.assignee,
                             task.storyPoints))

CalculateWorkloadDistribution(tasks) == WorkloadFrom(tasks, <<>>)

CalculateCapacityPercentage(assigned_points, capacity) ==
    IF capacity = 0 THEN (IF assigned_points = 0 THEN 0 ELSE 999)
    ELSE IntScaledQuotient(assigned_points, capacity, 0, 100)

\* capacity_map.get(assignee, 40); a later member of the same name wins
CapacityOfMut(team_capacity, assignee) == 40

RECURSIVE CapacityOf(_, _)
CapacityOf(team_capacity, assignee) ==
    IF team_capacity = <<>> THEN 40
    ELSE IF team_capacity[Len(team_capacity)].name = assignee
         THEN team_capacity[Len(team_capacity)].capacity
    ELSE CapacityOf(SubSeq(team_capacity, 1, Len(team_capacity) - 1), assignee)

OverloadSeverityMut(workload_pct) ==
    IF workload_pct <= 100 THEN "none"
    ELSE IF workload_pct < 120 THEN "moderate"
    ELSE IF workload_pct <= 150 THEN "high"
    ELSE "critical"

OverloadSeverity(workload_pct) ==
    IF workload_pct <= 100 THEN "none"
    ELSE IF workload_pct <= 120 THEN "moderate"
    ELSE IF workload_pct <= 150 THEN "high"
    ELSE "critical"

DetectOverloadedMembers(workload, team_capacity) ==
    LET Named(w) == w.assignee # "Unassigned"
        members == SelectSeq(workload, Named)
        Analysis(w, capacity, workload_pct) ==
            [assignee |-> w.assignee,
             assigned_points |-> w.points,
             capacity |-> capacity,
             workload_percentage |-> workload_pct,
             is_overloaded |-> workload_pct > 100,
             overload_severity |-> OverloadSeverity(workload_pct)]
        Entry(w) ==
            LET capacity == CapacityOf(team_capacity, w.assignee)
            IN  Analysis(w, capacity, CalculateCapacityPercentage(w.points, capacity))
    IN  [i \in 1..Len(members) |-> Entry(members[i])]

OverloadRiskBand(workload_pct) ==
    IF workload_pct <= 70 THEN 10
    ELSE IF workload_pct <= 90 THEN 30
    ELSE IF workload_pct <= 100 THEN 50
    ELSE IF workload_pct <= 120 THEN 75
    ELSE 95

\* the dict assignee -> risk as a function on the assignees analysed
GetOverloadRiskMap(overload_analysis) ==
    [a \in {overload_analysis[i].assignee : i \in 1..Len(overload_analysis)} |->
        LET i == CHOOSE j \in 1..Len(overload_analysis) :
                     overload_analysis[j].assignee = a
        IN  OverloadRiskBand(overload_analysis[i].workload_percentage)]

\* overload_risk_map.get(assignee, 0)
RiskMapGet(risk_map, assignee) ==
    IF assignee \in DOMAIN risk_map THEN risk_map[assignee] ELSE 0

\* ---------------------------------------------------- DependencyAnalyzer
\* A dict is a function on its keys.
EmptyDict == [k \in {} |-> <<>>]
DictPut(d, k, v) == [x \in (DOMAIN d) \cup {k} |-> IF x = k THEN v ELSE d[x]]
DictGet(d, k, default) == IF k \in DOMAIN d THEN d[k] ELSE default

\* build_dependency_graph first replaces both graphs by empty dicts
InitialGraphsMut(old) == old
InitialGraphs(old) == [dependency_graph |-> EmptyDict, reverse_graph |-> EmptyDict]

RECURSIVE AddDependents(_, _, _)
AddDependents(rg, deps, task_id) ==
    IF deps = <<>> THEN rg
    ELSE AddDependents(DictPut(rg, Head(deps), Append(DictGet(rg, Head(deps), <<>>), task_id)),
                       Tail(deps), task_id)

RECURSIVE AddTasks(_, _)
AddTasks(g, tasks) ==
    IF tasks = <<>> THEN g
    ELSE LET task == Head(tasks) IN
         AddTasks([dependency_graph |-> DictPut(g.dependency_graph, task.id, task.dependencies),
                   reverse_graph |-> AddDependents(g.reverse_graph, task.dependencies, task.id)],
                  Tail(tasks))

\* the two graphs after build_dependency_graph(tasks), old being the graphs before
BuildDependencyGraph(tasks, old) == AddTasks(InitialGraphs(old), tasks)

\* the graphs analyze_dependency_risks reads: it rebuilds them first
GraphsForRisksMut(tasks, old) == old
GraphsForRisks(tasks, old) == BuildDependencyGraph(tasks, old)

DetectBlockedTasksMut(tasks) ==
    LET IsOpen(dep_id) == StatusOf(tasks, dep_id) # "done"
        Blocked(task) == Len(SelectSeq(task.dependencies, IsOpen)) > 0
        blocked == SelectSeq(tasks, Blocked)
    IN  [i \in 1..Len(blocked) |-> blocked[i].id]
DetectBlockedTasks(tasks) ==
    LET IsOpen(dep_id) == StatusOf(tasks, dep_id) # "done"
        Blocked(task) == task.status # "done" /\ Len(SelectSeq(task.dependencies, IsOpen)) > 0
        blocked == SelectSeq(tasks, Blocked)
    IN  [i \in 1..Len(blocked) |-> blocked[i].id]

\* the loop of analyze_dependency_risks over the rebuilt reverse graph
DependencyRisksOverMut(tasks, rg) ==
    LET IsOpen(dep_id) == StatusOf(tasks, dep_id) # "done"
        Entry(task) ==
            LET blocked_by == SelectSeq(task.dependencies, IsOpen)
                blocks == DictGet(rg, task.id, <<>>)
                risk_score == (IF blocked_by # <<>> THEN Len(blocked_by) * 20 ELSE 0)
                            + (IF blocks # <<>> THEN Len(blocks) * 10 ELSE 0)
            IN  [task_id |-> task.id,
                 blocked_by |-> blocked_by,
                 blocks |-> blocks,
                 dependency_risk_score |-> Min(risk_score, 100)]
        all == [i \in 1..Len(tasks) |-> Entry(tasks[i])]
        Listed(e) == e.blocked_by # <<>> \/ e.blocks # <<>>
    IN  SelectSeq(all, Listed)
DependencyRisksOver(tasks, rg) ==
    LET IsOpen(dep_id) == StatusOf(tasks, dep_id) # "done"
        Entry(task) ==
            LET blocked_by == SelectSeq(task.dependencies, IsOpen)
                blocks == DictGet(rg, task.id, <<>>)
                risk_score == (IF blocked_by # <<>> THEN Len(blocked_by) * 20 ELSE 0)
                            + (IF blocks # <<>> /\ task.status # "done"
                               THEN Len(blocks) * 10 ELSE 0)
            IN  [task_id |-> task.id,
                 blocked_by |-> blocked_by,
                 blocks |-> blocks,
                 dependency_risk_score |-> Min(risk_score, 100)]
        all == [i \in 1..Len(tasks) |-> Entry(tasks[i])]
        Listed(e) == e.blocked_by # <<>> \/ e.blocks # <<>>
    IN  SelectSeq(all, Listed)

\* detect_circular_dependencies: the depth-first search dfs(task_id, path)
\* over dependency_graph. st holds what the nested function shares with its
\* caller (visited, rec_stack, cycles), the value dfs returned (found) and
\* the exception that left it (raised).
RecStackRemoveMut(rec_stack, task_id) == rec_stack
RecStackRemove(rec_stack, task_id) == rec_stack \ {task_id}

RECURSIVE Dfs(_, _, _, _), DfsDeps(_, _, _, _, _)
\* the loop of dfs over the rest deps of dependency_graph[task_id], path
\* ending in task_id; path.index(dep_id) raises ValueError when dep_id is
\* in rec_stack and not in path
DfsDeps(g, task_id, deps, path, st) ==
    IF deps = <<>>
    THEN [st EXCEPT !.rec_stack = RecStackRemove(@, task_id), !.found = FALSE]
    ELSE LET dep_id == Head(deps)
             After(sub) == IF sub.raised # None \/ sub.found THEN sub
                           ELSE DfsDeps(g, task_id, Tail(deps), path, sub)
             CycleAt(cycle_start) ==
                 SubSeq(path, cycle_start, Len(path)) \o <<dep_id>>
         IN  IF dep_id \notin st.visited THEN After(Dfs(g, dep_id, path, st))
             ELSE IF dep_id \in st.rec_stack
             THEN IF \E i \in DOMAIN path : path[i] = dep_id
                  THEN [st EXCEPT !.cycles = Append(@,
                                      CycleAt(CHOOSE i \in DOMAIN path :
                                                 /\ path[i] = dep_id
                                                 /\ \A j \in 1..(i - 1) : path[j] # dep_id)),
                                  !.found = TRUE]
                  ELSE [st EXCEPT !.raised = "ValueError"]
             ELSE DfsDeps(g, task_id, Tail(deps), path, st)

Dfs(g, task_id, path, st) ==
    DfsDeps(g, task_id, DictGet(g, task_id, <<>>), Append(path, task_id),
            [st EXCEPT !.visited = @ \cup {task_id}, !.rec_stack = @ \cup {task_id}])

RECURSIVE DfsFromEach(_, _, _)
\* for task in tasks: if task.id not in visited: dfs(task.id, [])
DfsFromEach(g, tasks, st) ==
    IF tasks = <<>> \/ st.raised # None THEN st
    ELSE DfsFromEach(g, Tail(tasks),
                     IF Head(tasks).id \in st.visited THEN st
                     ELSE Dfs(g, Head(tasks).id, <<>>, st))

\* the cycles returned, or the exception raised, over the dependency graph g
DetectCircularDependencies(tasks, g) ==
    DfsFromEach(g, tasks, [visited |-> {}, rec_stack |-> {}, cycles |-> <<>>,
                           found |-> FALSE, raised |-> None])

\* calculate_dependency_depth over the graph g. A call that would need more
\* than the interpreter's limit of nested frames raises RecursionError, and
\* the error ends every enclosing call.
RECURSIVE CalculateDependencyDepth(_, _, _)
CalculateDependencyDepth(g, task_id, frames) ==
    LET dependencies == DictGet(g, task_id, <<>>)
        RECURSIVE Over(_, _)
        Deeper(i, max_depth, r) ==
            IF r.error # None THEN r ELSE Over(i + 1, Max(max_depth, 1 + r.value))
        Over(i, max_depth) ==
            IF i > Len(dependencies) THEN [error |-> None, value |-> max_depth]
            ELSE Deeper(i, max_depth,
                        CalculateDependencyDepth(g, dependencies[i], frames - 1))
    IN  IF frames = 0 THEN [error |-> "RecursionError", value |-> 0]
        ELSE IF task_id \notin DOMAIN g THEN [error |-> None, value |-> 0]
        ELSE IF dependencies = <<>> THEN [error |-> None, value |-> 0]
        ELSE Over(1, 0)

FindCriticalPathMut(g, tasks, frames) ==
    LET RECURSIVE Deepest(_, _, _)
        RECURSIVE Follow(_, _, _, _)
        RECURSIVE Trace(_, _)
        Compare(i, max_depth, critical_task, r) ==
            IF r.error # None THEN [error |-> r.error, task |-> None, depth |-> 0]
            ELSE IF r.value > max_depth THEN Deepest(i + 1, r.value, tasks[i].id)
            ELSE Deepest(i + 1, max_depth, critical_task)
        Deepest(i, max_depth, critical_task) ==
            IF i > Len(tasks)
            THEN [error |-> None, task |-> critical_task, depth |-> max_depth]
            ELSE Compare(i, max_depth, critical_task,
                         CalculateDependencyDepth(g, tasks[i].id, frames))
        Better(deps, i, max_dep_depth, next_task, r) ==
            IF r.error # None THEN [error |-> r.error, task |-> None]
            ELSE IF r.value >= max_dep_depth THEN Follow(deps, i + 1, r.value, deps[i])
            ELSE Follow(deps, i + 1, max_dep_depth, next_task)
        Follow(deps, i, max_dep_depth, next_task) ==
            IF i > Len(deps) THEN [error |-> None, task |-> next_task]
            ELSE Better(deps, i, max_dep_depth, next_task,
                        CalculateDependencyDepth(g, deps[i], frames))
        Step(path, next) ==
            IF next.error # None THEN [error |-> next.error, value |-> <<>>]
            ELSE IF next.task = None THEN [error |-> None, value |-> path]
            ELSE Trace(Append(path, next.task), next.task)
        Trace(path, current) ==
            IF DictGet(g, current, <<>>) = <<>> THEN [error |-> None, value |-> path]
            ELSE Step(path, Follow(g[current], 1, -1, None))
        Traced(critical) ==
            IF critical.error # None THEN [error |-> critical.error, value |-> <<>>]
            ELSE IF critical.task = None THEN [error |-> None, value |-> <<>>]
            ELSE Trace(<<critical.task>>, critical.task)
    IN  Traced(Deepest(1, 0, None))
\* find_critical_path reads the graph g that an earlier call has left
FindCriticalPath(g, tasks, frames) ==
    LET RECURSIVE Deepest(_, _, _)
        RECURSIVE Follow(_, _, _, _)
        RECURSIVE Trace(_, _)
        Compare(i, max_depth, critical_task, r) ==
            IF r.error # None THEN [error |-> r.error, task |-> None, depth |-> 0]
            ELSE IF r.value > max_depth THEN Deepest(i + 1, r.value, tasks[i].id)
            ELSE Deepest(i + 1, max_depth, critical_task)
        Deepest(i, max_depth, critical_task) ==
            IF i > Len(tasks)
            THEN [error |-> None, task |-> critical_task, depth |-> max_depth]
            ELSE Compare(i, max_depth, critical_task,
                         CalculateDependencyDepth(g, tasks[i].id, frames))
        Better(deps, i, max_dep_depth, next_task, r) ==
            IF r.error # None THEN [error |-> r.error, task |-> None]
            ELSE IF r.value > max_dep_depth THEN Follow(deps, i + 1, r.value, deps[i])
            ELSE Follow(deps, i + 1, max_dep_depth, next_task)
        Follow(deps, i, max_dep_depth, next_task) ==
            IF i > Len(deps) THEN [error |-> None, task |-> next_task]
            ELSE Better(deps, i, max_dep_depth, next_task,
                        CalculateDependencyDepth(g, deps[i], frames))
        Step(path, next) ==
            IF next.error # None THEN [error |-> next.error, value |-> <<>>]
            ELSE IF next.task = None THEN [error |-> None, value |-> path]
            ELSE Trace(Append(path, next.task), next.task)
        Trace(path, current) ==
            IF DictGet(g, current, <<>>) = <<>> THEN [error |-> None, value |-> path]
            ELSE Step(path, Follow(g[current], 1, -1, None))
        Traced(critical) ==
            IF critical.error # None THEN [error |-> critical.error, value |-> <<>>]
            ELSE IF critical.task = None THEN [error |-> None, value |-> <<>>]
            ELSE Trace(<<critical.task>>, critical.task)
    IN  Traced(Deepest(1, 0, None))

\* ---------------------------------------------------- AISummaryGenerator
GenerateTaskRecommendations(risk_factors) ==
    LET recommendations ==
            (IF risk_factors.deadline > 70
             THEN <<"Consider extending deadline or reducing scope">> ELSE <<>>)
         \o (IF risk_factors.complexity > 70
             THEN <<"Break down into smaller subtasks">> ELSE <<>>)
         \o (IF risk_factors.dependency > 50
             THEN <<"Prioritize unblocking dependencies">> ELSE <<>>)
         \o (IF risk_factors.overload > 70
             THEN <<"Reassign to less loaded team member">> ELSE <<>>)
         \o (IF risk_factors.velocity > 60
             THEN <<"Review team capacity and sprint planning">> ELSE <<>>)
    IN  IF recommendations # <<>> THEN recommendations ELSE <<"Monitor progress closely">>

\* The templated sentence, as the values it is built from.
GenerateFallbackSummary(overall_risk_score, risk_level, high_risk_count, overloaded_count, blocked_count, predicted_delay) ==
    [kind |-> "fallback",
     risk |-> IF risk_level \in {"critical", "high", "moderate"} THEN risk_level ELSE "low",
     score |-> overall_risk_score,
     concerns |-> (IF high_risk_count > 0
                   THEN <<[what |-> "high-risk tasks", n |-> high_risk_count]>> ELSE <<>>)
               \o (IF overloaded_count > 0
                   THEN <<[what |-> "overloaded team members", n |-> overloaded_count]>>
                   ELSE <<>>)
               \o (IF blocked_count > 0
                   THEN <<[what |-> "blocked tasks", n |-> blocked_count]>> ELSE <<>>),
     delay |-> predicted_delay,
     text |-> None]

\* llm is the outcome of self.llm.nlp(prompt): "fail" when the call raises
\* (or returns no text, which makes summary.strip() raise), else the text.
\* Every exception is caught and replaced by the fallback sentence.
GenerateHealthSummaryMut(llm, overall_risk_score, risk_level, task_count, high_risk_count, overloaded_count, blocked_count, predicted_delay, average_velocity, remaining_points, critical_issues) ==
    [kind |-> IF llm = "fail" THEN "error" ELSE "llm", risk |-> None, score |-> 0,
     concerns |-> <<>>, delay |-> 0, text |-> llm]
GenerateHealthSummary(llm, overall_risk_score, risk_level, task_count, high_risk_count, overloaded_count, blocked_count, predicted_delay, average_velocity, remaining_points, critical_issues) ==
    IF llm = "fail"
    THEN GenerateFallbackSummary(overall_risk_score, risk_level, high_risk_count,
                                 overloaded_count, blocked_count, predicted_delay)
    ELSE [kind |-> "llm", risk |-> None, score |-> 0, concerns |-> <<>>, delay |-> 0,
          text |-> llm]

\* --------------------------------------------------- RecommendationEngine
\* A Recommendation is [type, priority, affected_tasks, detail]; detail holds
\* the numbers its description and expected_impact are formatted from.

RECURSIVE Flatten(_)
Flatten(ss) == IF ss = <<>> THEN <<>> ELSE Head(ss) \o Flatten(Tail(ss))

\* available_capacity * velocity of a before that of b
MoreEffective(a, b) ==
    a.available_capacity * a.velocity.num * b.velocity.den
        > b.available_capacity * b.velocity.num * a.velocity.den

\* list.sort(key=effectiveness, reverse=True): stable, descending
RECURSIVE InsertByEffectiveness(_, _)
InsertByEffectiveness(sorted, m) ==
    IF sorted = <<>> THEN <<m>>
    ELSE IF MoreEffective(m, Head(sorted)) THEN <<m>> \o sorted
    ELSE <<Head(sorted)>> \o InsertByEffectiveness(Tail(sorted), m)

RECURSIVE SortByEffectiveness(_, _)
SortByEffectiveness(members, sorted) ==
    IF members = <<>> THEN sorted
    ELSE SortByEffectiveness(Tail(members), InsertByEffectiveness(sorted, Head(members)))

\* velocity_map.get(name, 1.0); team_capacity is a list of [name, velocity_multiplier]
RECURSIVE VelocityOf(_, _)
VelocityOf(team_capacity, name) ==
    IF team_capacity = <<>> THEN Rat(1, 1)
    ELSE IF team_capacity[Len(team_capacity)].name = name
         THEN team_capacity[Len(team_capacity)].velocity_multiplier
    ELSE VelocityOf(SubSeq(team_capacity, 1, Len(team_capacity) - 1), name)

AvailableMembers(overload_analysis, team_capacity) ==
    LET HasCapacity(member) == member.workload_percentage < 95
        free == SelectSeq(overload_analysis, HasCapacity)
        Entry(member) ==
            [name |-> member.assignee,
             available_capacity |-> member.capacity - member.assigned_points,
             current_load_pct |-> member.workload_percentage,
             velocity |-> VelocityOf(team_capacity, member.assignee),
             capacity |-> member.capacity,
             assigned |-> member.assigned_points]
    IN  SortByEffectiveness([i \in 1..Len(free) |-> Entry(free[i])], <<>>)

\* the loop over potential_helpers[:3]
RECURSIVE SplitAmong(_, _, _)
SplitAmong(helpers, remaining, split_suggestions) ==
    IF helpers = <<>> \/ remaining <= 0 THEN split_suggestions
    ELSE LET helper == Head(helpers)
             base_allocation == Min(remaining \div 2, helper.available_capacity)
             velocity_adjusted == IntScaledQuotient(helper.velocity.num, helper.velocity.den,
                                                    0, base_allocation)
             Allocate(points_to_allocate) ==
                 IF points_to_allocate >= 3
                 THEN SplitAmong(Tail(helpers), remaining - points_to_allocate,
                          Append(split_suggestions,
                                 [name |-> helper.name,
                                  points |-> points_to_allocate,
                                  current_load |-> helper.current_load_pct,
                                  new_load |-> IntScaledQuotient(
                                                   helper.assigned + points_to_allocate,
                                                   helper.capacity, 0, 100),
                                  velocity |-> helper.velocity]))
                 ELSE SplitAmong(Tail(helpers), remaining, split_suggestions)
         IN  Allocate(Min3(Max(3, velocity_adjusted), helper.available_capacity, remaining))

\* the body of the loop over member_tasks[:3]: a recommendation, nothing, or
\* the ZeroDivisionError of dividing by the owner's capacity 0
DistributeTask(overloaded_member, task, available_members, task_risk_analysis) ==
    LET IsRisk(t) == t.task_id = task.id
        risks == SelectSeq(task_risk_analysis, IsRisk)
        CanHelp(m) == m.name # overloaded_member.assignee /\ m.available_capacity >= 3
        potential_helpers == SelectSeq(available_members, CanHelp)
        total_points == task.storyPoints
        original_keeps == Max(2, total_points \div 4)
        to_distribute == total_points - original_keeps
        Suggest(split_suggestions, total_distributed) ==
            IF risks = <<>> \/ potential_helpers = <<>> \/ split_suggestions = <<>>
            THEN [error |-> None, recs |-> <<>>]
            ELSE IF overloaded_member.capacity = 0
            THEN [error |-> "ZeroDivisionError", recs |-> <<>>]
            ELSE [error |-> None,
                  recs |-> <<[type |-> "work_distribution",
                              priority |-> "high",
                              affected_tasks |-> <<task.id>>,
                              detail |-> [owner |-> overloaded_member.assignee,
                                          original_keeps |-> original_keeps,
                                          helpers |-> split_suggestions,
                                          old_load |-> overloaded_member.workload_percentage,
                                          new_load |-> IntScaledQuotient(
                                              overloaded_member.assigned_points - total_distributed,
                                              overloaded_member.capacity, 0, 100),
                                          risk_reduction |-> Min(40, risks[1].total_risk_score)]]>>]
        Split(split_suggestions) ==
            Suggest(split_suggestions,
                    SumSeq([i \in 1..Len(split_suggestions) |-> split_suggestions[i].points]))
    IN  Split(SplitAmong(FirstN(potential_helpers, 3), to_distribute, <<>>))

\* the first error of a list of outcomes, else all their recommendations
RECURSIVE Collect(_, _)
Collect(outcomes, recs) ==
    IF outcomes = <<>> THEN [error |-> None, recs |-> recs]
    ELSE IF Head(outcomes).error # None THEN [error |-> Head(outcomes).error, recs |-> <<>>]
    ELSE Collect(Tail(outcomes), recs \o Head(outcomes).recs)

GenerateWorkDistributionRecommendations(overload_analysis, tasks, task_risk_analysis, team_capacity) ==
    LET IsOverloaded(a) == a.workload_percentage > 90
        overloaded == SelectSeq(overload_analysis, IsOverloaded)
        MemberOutcomes(overloaded_member, available_members) ==
            LET IsLarge(task) == /\ task.assignee = overloaded_member.assignee
                                 /\ task.status # "done"
                                 /\ task.storyPoints >= 8
                member_tasks == FirstN(SelectSeq(tasks, IsLarge), 3)
            IN  [i \in 1..Len(member_tasks) |->
                    DistributeTask(overloaded_member, member_tasks[i],
                                   available_members, task_risk_analysis)]
        Distribute(available_members) ==
            IF overloaded = <<>> \/ available_members = <<>>
            THEN [error |-> None, recs |-> <<>>]
            ELSE Collect(Flatten([i \in 1..Len(overloaded) |->
                                     MemberOutcomes(overloaded[i], available_members)]),
                         <<>>)
    IN  Distribute(AvailableMembers(overload_analysis, team_capacity))

GenerateReassignmentRecommendations(overload_analysis, tasks) ==
    LET IsOverloaded(a) == a.workload_percentage > 120
        IsUnder(a) == a.workload_percentage < 60
        overloaded == SelectSeq(overload_analysis, IsOverloaded)
        underutilized == SelectSeq(overload_analysis, IsUnder)
        ForMember(overloaded_member) ==
            LET IsSmall(task) == /\ task.assignee = overloaded_member.assignee
                                 /\ task.status = "todo"
                                 /\ 3 <= task.storyPoints /\ task.storyPoints <= 5
                member_tasks == SelectSeq(tasks, IsSmall)
            IN  IF member_tasks = <<>> THEN <<>>
                ELSE <<[type |-> "reassignment",
                        priority |-> "medium",
                        affected_tasks |-> <<member_tasks[1].id>>,
                        detail |-> [from |-> overloaded_member.assignee,
                                    from_load |-> overloaded_member.workload_percentage,
                                    to |-> underutilized[1].assignee,
                                    to_load |-> underutilized[1].workload_percentage,
                                    available |-> underutilized[1].capacity
                                                  - underutilized[1].assigned_points]]>>
    IN  IF overloaded = <<>> \/ underutilized = <<>> THEN <<>>
        ELSE Flatten([i \in 1..Len(overloaded) |-> ForMember(overloaded[i])])

GeneratePriorityRecommendationsMut(dependency_risks, task_risk_analysis) ==
    LET HighRisk(dep_risk) ==
            /\ dep_risk.blocks # <<>>
            /\ dep_risk.dependency_risk_score > 50
            /\ \E i \in 1..Len(task_risk_analysis) :
                  /\ task_risk_analysis[i].task_id = dep_risk.task_id
                  /\ \A j \in 1..(i - 1) : task_risk_analysis[j].task_id # dep_risk.task_id
                  /\ task_risk_analysis[i].total_risk_score >= 60
        blocking_high_risk == FirstN(SelectSeq(dependency_risks, HighRisk), 3)
    IN  [i \in 1..Len(blocking_high_risk) |->
            [type |-> "prioritization",
             priority |-> "critical",
             affected_tasks |-> <<blocking_high_risk[i].task_id>>
                                \o blocking_high_risk[i].blocks,
             detail |-> [blocks |-> Len(blocking_high_risk[i].blocks)]]]

GeneratePriorityRecommendations(dependency_risks, task_risk_analysis) ==
    LET HighRisk(dep_risk) ==
            /\ dep_risk.blocks # <<>>
            /\ dep_risk.dependency_risk_score > 50
            /\ \E i \in 1..Len(task_risk_analysis) :
                  /\ task_risk_analysis[i].task_id = dep_risk.task_id
                  /\ \A j \in 1..(i - 1) : task_risk_analysis[j].task_id # dep_risk.task_id
                  /\ task_risk_analysis[i].total_risk_score > 60
        blocking_high_risk == FirstN(SelectSeq(dependency_risks, HighRisk), 3)
    IN  [i \in 1..Len(blocking_high_risk) |->
            [type |-> "prioritization",
             priority |-> "critical",
             affected_tasks |-> <<blocking_high_risk[i].task_id>>
                                \o blocking_high_risk[i].blocks,
             detail |-> [blocks |-> Len(blocking_high_risk[i].blocks)]]]

GenerateComplexityRecommendations(task_risk_analysis) ==
    LET IsComplex(t) == t.risk_factors.complexity > 70
        high_complexity_tasks == FirstN(SelectSeq(task_risk_analysis, IsComplex), 2)
    IN  [i \in 1..Len(high_complexity_tasks) |->
            [type |-> "task_breakdown",
             priority |-> "medium",
             affected_tasks |-> <<high_complexity_tasks[i].task_id>>,
             detail |-> [complexity |-> high_complexity_tasks[i].risk_factors.complexity]]]

GenerateDeadlineRecommendations(task_risk_analysis) ==
    LET IsUrgent(t) == t.risk_factors.deadline > 70
        urgent_tasks == SelectSeq(task_risk_analysis, IsUrgent)
    IN  IF urgent_tasks = <<>> THEN <<>>
        ELSE <<[type |-> "deadline_adjustment",
                priority |-> "high",
                affected_tasks |-> [i \in 1..Len(urgent_tasks) |-> urgent_tasks[i].task_id],
                detail |-> [urgent |-> Len(urgent_tasks),
                            defer |-> Len(urgent_tasks) \div 2]]>>

\* int(sprints_needed - 1) raises OverflowError for the infinite double
GenerateVelocityRecommendations(average_velocity, remaining_points, sprints_needed) ==
    IF IsInf(sprints_needed) THEN [error |-> "OverflowError", recs |-> <<>>]
    ELSE IF sprints_needed.num > 2 * sprints_needed.den
    THEN [error |-> None,
          recs |-> <<[type |-> "scope_adjustment",
                      priority |-> "critical",
                      affected_tasks |-> <<>>,
                      detail |-> [average_velocity |-> average_velocity,
                                  sprints_needed |-> sprints_needed,
                                  remaining_points |-> remaining_points,
                                  extend |-> (sprints_needed.num - sprints_needed.den)
                                             \div sprints_needed.den]]>>]
    ELSE [error |-> None, recs |-> <<>>]

PriorityOrder(priority) ==
    CASE priority = "critical" -> 0
      [] priority = "high" -> 1
      [] priority = "medium" -> 2
      [] priority = "low" -> 3
      [] OTHER -> 4

\* recommendations.sort(key=priority_order): stable, ascending
RECURSIVE InsertByPriorityMut(_, _)
InsertByPriorityMut(sorted, r) ==
    IF sorted = <<>> THEN <<r>>
    ELSE IF PriorityOrder(r.priority) <= PriorityOrder(Head(sorted).priority)
         THEN <<r>> \o sorted
    ELSE <<Head(sorted)>> \o InsertByPriorityMut(Tail(sorted), r)

RECURSIVE InsertByPriority(_, _)
InsertByPriority(sorted, r) ==
    IF sorted = <<>> THEN <<r>>
    ELSE IF PriorityOrder(r.priority) < PriorityOrder(Head(sorted).priority)
         THEN <<r>> \o sorted
    ELSE <<Head(sorted)>> \o InsertByPriority(Tail(sorted), r)

RECURSIVE SortByPriority(_, _)
SortByPriority(recs, sorted) ==
    IF recs = <<>> THEN sorted
    ELSE SortByPriority(Tail(recs), InsertByPriority(sorted, Head(recs)))

GenerateAllRecommendations(overload_analysis, dependency_risks, task_risk_analysis, tasks, average_velocity, remaining_points, sprints_needed) ==
    LET unit_velocity == [i \in 1..Len(overload_analysis) |->
                             [name |-> overload_analysis[i].assignee,
                              velocity_multiplier |-> Rat(1, 1)]]
        All(work, velocity) ==
            IF work.error # None THEN work
            ELSE IF velocity.error # None THEN velocity
            ELSE [error |-> None,
                  recs |-> SortByPriority(
                              work.recs
                              \o GenerateReassignmentRecommendations(overload_analysis, tasks)
                              \o GeneratePriorityRecommendations(dependency_risks,
                                                                 task_risk_analysis)
                              \o GenerateComplexityRecommendations(task_risk_analysis)
                              \o GenerateDeadlineRecommendations(task_risk_analysis)
                              \o velocity.recs,
                              <<>>)]
    IN  All(GenerateWorkDistributionRecommendations(overload_analysis, tasks,
                                                    task_risk_analysis, unit_velocity),
            GenerateVelocityRecommendations(average_velocity, remaining_points,
                                            sprints_needed))

\* -------------------------------------------------------- PlanningService
IdentifyCriticalIssuesMut(task_risk_analysis, overload_analysis, blocked_tasks, predicted_delay) ==
    LET IsCritical(t) == t.risk_level = "critical"
        IsSevere(o) == o.workload_percentage > 150
        IsComplex(t) == t.risk_factors.complexity > 70
        critical_tasks == Len(SelectSeq(task_risk_analysis, IsCritical))
        severe_overload == Len(SelectSeq(overload_analysis, IsSevere))
        high_complexity == Len(SelectSeq(task_risk_analysis, IsComplex))
        issues ==
            (IF critical_tasks > 0
             THEN <<[issue |-> "critical_risk_tasks", n |-> critical_tasks]>> ELSE <<>>)
         \o (IF severe_overload > 0
             THEN <<[issue |-> "severely_overloaded", n |-> severe_overload]>> ELSE <<>>)
         \o (IF Len(blocked_tasks) >= 3
             THEN <<[issue |-> "blocked_tasks", n |-> Len(blocked_tasks)]>> ELSE <<>>)
         \o (IF predicted_delay > 7
             THEN <<[issue |-> "release_delay", n |-> predicted_delay]>> ELSE <<>>)
         \o (IF high_complexity > 5
             THEN <<[issue |-> "high_complexity", n |-> high_complexity]>> ELSE <<>>)
    IN  IF issues # <<>> THEN issues ELSE <<[issue |-> "none", n |-> 0]>>
IdentifyCriticalIssues(task_risk_analysis, overload_analysis, blocked_tasks, predicted_delay) ==
    LET IsCritical(t) == t.risk_level = "critical"
        IsSevere(o) == o.workload_percentage > 150
        IsComplex(t) == t.risk_factors.complexity > 70
        critical_tasks == Len(SelectSeq(task_risk_analysis, IsCritical))
        severe_overload == Len(SelectSeq(overload_analysis, IsSevere))
        high_complexity == Len(SelectSeq(task_risk_analysis, IsComplex))
        issues ==
            (IF critical_tasks > 0
             THEN <<[issue |-> "critical_risk_tasks", n |-> critical_tasks]>> ELSE <<>>)
         \o (IF severe_overload > 0
             THEN <<[issue |-> "severely_overloaded", n |-> severe_overload]>> ELSE <<>>)
         \o (IF Len(blocked_tasks) > 3
             THEN <<[issue |-> "blocked_tasks", n |-> Len(blocked_tasks)]>> ELSE <<>>)
         \o (IF predicted_delay > 7
             THEN <<[issue |-> "release_delay", n |-> predicted_delay]>> ELSE <<>>)
         \o (IF high_complexity > 5
             THEN <<[issue |-> "high_complexity", n |-> high_complexity]>> ELSE <<>>)
    IN  IF issues # <<>> THEN issues ELSE <<[issue |-> "none", n |-> 0]>>

\* one pass of the loop "for task in request.tasks" of analyze_planning
TaskRisk(task, tasks, overload_risk_map, average_velocity) ==
    LET Analysis(total_risk, risk_factors) ==
            [task_id |-> task.id,
             total_risk_score |-> total_risk,
             risk_level |-> CategorizeRiskLevel(total_risk),
             risk_factors |-> risk_factors,
             recommendations |-> GenerateTaskRecommendations(risk_factors)]
        Scored(deadline_risk, complexity_risk, dependency_risk, overload_risk, velocity_risk) ==
            Analysis(CalculateTotalRisk(deadline_risk, complexity_risk, dependency_risk,
                                        overload_risk, velocity_risk),
                     [deadline |-> deadline_risk,
                      complexity |-> complexity_risk,
                      dependency |-> dependency_risk,
                      overload |-> overload_risk,
                      velocity |-> velocity_risk])
        current_velocity == CalculateCompletedVelocity(tasks)
    IN  Scored(CalculateDeadlineRisk(task.dueDate),
               CalculateComplexityRisk(task.storyPoints),
               CalculateDependencyRisk(task.dependencies, tasks),
               CalculateOverloadRisk(task.assignee,
                                     RiskMapGet(overload_risk_map, task.assignee)),
               CalculateVelocityRisk(current_velocity,
                                     IF average_velocity.num > 0 THEN average_velocity
                                     ELSE Rat(current_velocity, 1)))

\* int(sum(scores) / len(scores)): the quotient of two small integers is
\* whole exactly when its double is
OverallRiskScore(task_risk_analysis) ==
    IF task_risk_analysis = <<>> THEN 0
    ELSE SumSeq([i \in 1..Len(task_risk_analysis) |->
                    task_risk_analysis[i].total_risk_score]) \div Len(task_risk_analysis)

\* The local variables of analyze_planning; trace lists the steps completed.
NoLoc ==
    [trace |-> <<>>,
     average_velocity |-> Rat(0, 1),
     sprint_capacity |-> 0,
     remaining_points |-> 0,
     sprints_needed |-> Rat(0, 1),
     predicted_delay |-> 0,
     overload_analysis |-> <<>>,
     overload_risk_map |-> EmptyDict,
     blocked_tasks |-> <<>>,
     read_graph |-> EmptyDict,
     dependency_risks |-> <<>>,
     task_risk_analysis |-> <<>>,
     overall_risk_score |-> 0,
     overall_risk_level |-> None,
     critical_issues |-> <<>>,
     recommendations |-> <<>>,
     ai_health_summary |-> [kind |-> None],
     llm |-> None]

\* 1. velocity metrics
StepVelocity(l, r) ==
    LET average_velocity == CalculateAverageVelocity(r.velocity_history)
        sprint_capacity == CalculateSprintCapacity(r.team_capacity)
        remaining_points == CalculateRemainingStoryPoints(r.tasks)
    IN  [l EXCEPT !.trace = Append(@, "velocity"),
                  !.average_velocity = average_velocity,
                  !.sprint_capacity = sprint_capacity,
                  !.remaining_points = remaining_points,
                  !.sprints_needed =
                      CalculateSprintsNeeded(remaining_points,
                                             SprintsDivisor(average_velocity, sprint_capacity))]

\* predicted_delay = predict_release_delay(sprints_needed, planned_sprints=1)
StepDelay(l, predicted_delay) ==
    [l EXCEPT !.trace = Append(@, "delay"),
              !.predicted_delay = predicted_delay]

\* 2. workload
StepWorkload(l, r) ==
    LET Analysed(overload_analysis) ==
            [l EXCEPT !.trace = Append(@, "workload"),
                      !.overload_analysis = overload_analysis,
                      !.overload_risk_map = GetOverloadRiskMap(overload_analysis)]
    IN  Analysed(DetectOverloadedMembers(CalculateWorkloadDistribution(r.tasks),
                                         r.team_capacity))

\* 3. build_dependency_graph and detect_blocked_tasks
StepGraph(l, r) ==
    [l EXCEPT !.trace = Append(@, "graph"),
              !.blocked_tasks = DetectBlockedTasks(r.tasks)]

\* 3. analyze_dependency_risks, g being the graphs it reads
StepDependencyRisks(l, r, g) ==
    [l EXCEPT !.trace = Append(@, "dep_risks"),
              !.read_graph = g.reverse_graph,
              !.dependency_risks = DependencyRisksOver(r.tasks, g.reverse_graph)]

\* 4. to 6. task risks, overall project risk, critical issues
StepTaskRisks(l, r) ==
    LET Scored(task_risk_analysis, overall_risk_score) ==
            [l EXCEPT !.trace = Append(@, "task_risks"),
                      !.task_risk_analysis = task_risk_analysis,
                      !.overall_risk_score = overall_risk_score,
                      !.overall_risk_level = CategorizeRiskLevel(overall_risk_score),
                      !.critical_issues =
                          IdentifyCriticalIssues(task_risk_analysis, l.overload_analysis,
                                                 l.blocked_tasks, l.predicted_delay)]
        Analysed(task_risk_analysis) ==
            Scored(task_risk_analysis, OverallRiskScore(task_risk_analysis))
    IN  Analysed([i \in 1..Len(r.tasks) |->
                     TaskRisk(r.tasks[i], r.tasks, l.overload_risk_map, l.average_velocity)])

\* 7. recommendations: the list or the exception raised
Recommendations(l, r) ==
    GenerateAllRecommendations(l.overload_analysis, l.dependency_risks,
                               l.task_risk_analysis, r.tasks, l.average_velocity,
                               l.remaining_points, l.sprints_needed)

StepRecommend(l, recommendations) ==
    [l EXCEPT !.trace = Append(@, "recommend"),
              !.recommendations = recommendations]

HighRiskCount(task_risk_analysis) ==
    LET IsHigh(t) == t.risk_level \in {"critical", "high"}
    IN  Len(SelectSeq(task_risk_analysis, IsHigh))

OverloadedCount(overload_analysis) ==
    LET IsOver(o) == o.is_overloaded IN Len(SelectSeq(overload_analysis, IsOver))

\* 8. health summary, llm being the outcome of the text-generation call
StepSummary(l, r, llm) ==
    [l EXCEPT !.trace = Append(@, "summary"),
              !.llm = llm,
              !.ai_health_summary =
                  GenerateHealthSummary(llm, l.overall_risk_score, l.overall_risk_level,
                                        Len(r.tasks),
                                        HighRiskCount(l.task_risk_analysis),
                                        OverloadedCount(l.overload_analysis),
                                        Len(l.blocked_tasks), l.predicted_delay,
                                        l.average_velocity, l.remaining_points,
                                        l.critical_issues)]

\* 9. PlanningResponse
Report(l) ==
    [overall_risk_score |-> l.overall_risk_score,
     risk_level |-> l.overall_risk_level,
     predicted_release_delay_days |-> l.predicted_delay,
     average_velocity |-> l.average_velocity,
     sprint_capacity |-> l.sprint_capacity,
     remaining_story_points |-> l.remaining_points,
     sprints_needed |-> l.sprints_needed,
     task_analysis |-> l.task_risk_analysis,
     overload_analysis |-> l.overload_analysis,
     dependency_risks |-> l.dependency_risks,
     blocked_tasks |-> l.blocked_tasks,
     recommendations |-> l.recommendations,
     ai_health_summary |-> l.ai_health_summary,
     critical_issues |-> l.critical_issues]

\* ------------------------------------------------------------- the handler
\* HTTP responses of POST /planning/analyze
NoBody == [detail |-> None]
NoResp == [status |-> 0, body |-> NoBody]
Ok(l) == [status |-> 200, body |-> Report(l)]
ClientError == [status |-> 400, body |-> [detail |-> "No tasks provided for analysis"]]
ServerError(e) == [status |-> 500, body |-> [detail |-> e]]

\* "if not request.tasks" is false
TasksProvidedMut(r) == TRUE
TasksProvided(r) == r.tasks # <<>>

\* The response to request r of a newly constructed service that handles
\* nothing else: the handler's check, then analyze_planning from its first
\* statement to its last, llm being the outcome of the text-generation call.
AnalyzePlanning(r, llm) ==
    LET l1 == StepVelocity(NoLoc, r)
        delay == PredictReleaseDelay(l1.sprints_needed, 1)
        l2 == StepDelay(l1, delay.value)
        l3 == StepWorkload(l2, r)
        l4 == StepGraph(l3, r)
        g == BuildDependencyGraph(r.tasks, [dependency_graph |-> EmptyDict,
                                            reverse_graph |-> EmptyDict])
        l5 == StepDependencyRisks(l4, r, g)
        l6 == StepTaskRisks(l5, r)
        recs == Recommendations(l6, r)
        l7 == StepRecommend(l6, recs.recs)
        l8 == StepSummary(l7, r, llm)
    IN  IF ~TasksProvided(r) THEN ClientError
        ELSE IF delay.error # None THEN ServerError(delay.error)
        ELSE IF recs.error # None THEN ServerError(recs.error)
        ELSE IF l8.ai_health_summary.kind = "error" THEN ServerError("LLMError")
        ELSE Ok(l8)

\* ---------------------------------------------------------- request domain
IdNames == <<"t1", "t2", "t3", "t4", "t5", "t6", "t7">>
Assignees == {None, "ann", "bob"}
StoryPointValues == {3, 60}
Statuses == {"todo", "done"}
DependencyLists == {<<>>, <<"t1">>}
DueDates == {<<>>}
TeamOptions ==
    {<<>>,
     <<[name |-> "ann", capacity |-> 0], [name |-> "bob", capacity |-> 10]>>}
\* velocity entries are multiples of 3, so the rolling average is a double
VelocityHistories == {<<>>, <<3, 6, 9, 21>>}
LLMOutcomes == {"fail", "On track."}

\* the fields of a task other than its id; the dependencies of a finished
\* task are left out
TaskShapes ==
    {sh \in [assignee : Assignees, dueDate : DueDates, storyPoints : StoryPointValues,
             status : Statuses, dependencies : DependencyLists] :
        sh.status = "done" => sh.dependencies = <<>>}

TaskListsOver(shapes) ==
    UNION {{[i \in 1..n |->
                [id |-> IdNames[i],
                 assignee |-> f[i].assignee,
                 dueDate |-> f[i].dueDate,
                 storyPoints |-> f[i].storyPoints,
                 status |-> f[i].status,
                 dependencies |-> f[i].dependencies]] : f \in [1..n -> shapes]}
           : n \in 0..MaxTasks}

Requests ==
    [tasks : TaskListsOver(TaskShapes), team_capacity : TeamOptions,
     velocity_history : VelocityHistories]

\* requests that differ in their dependency structure only
GraphRequests ==
    [tasks : TaskListsOver({sh \in TaskShapes : /\ sh.assignee = None
                                                /\ sh.storyPoints = 3
                                                /\ sh.status = "todo"}),
     team_capacity : {<<>>}, velocity_history : {<<3, 6, 9, 21>>}]

NoReq == [tasks |-> <<>>, team_capacity |-> <<>>, velocity_history |-> <<>>]

Slots == {1, 2}

\* ----------------------------------------------------------------- actions
Done(s, response) ==
    /\ pc' = [pc EXCEPT ![s] = "done"]
    /\ resp' = [resp EXCEPT ![s] = response]
    /\ history' = Append(history, [req |-> req[s], llm |-> loc[s].llm, resp |-> response])

Goto(s, label, l) ==
    /\ pc' = [pc EXCEPT ![s] = label]
    /\ loc' = [loc EXCEPT ![s] = l]
    /\ UNCHANGED <<resp, history>>

\* main.analyze_planning is entered with a parsed request and validates it
Receive(s, r) ==
    /\ pc[s] \in {"idle", "done"}
    /\ req' = [req EXCEPT ![s] = r]
    /\ loc' = [loc EXCEPT ![s] = NoLoc]
    /\ IF TasksProvided(r)
       THEN /\ pc' = [pc EXCEPT ![s] = "velocity"]
            /\ resp' = [resp EXCEPT ![s] = NoResp]
            /\ UNCHANGED history
       ELSE /\ pc' = [pc EXCEPT ![s] = "done"]
            /\ resp' = [resp EXCEPT ![s] = ClientError]
            /\ history' = Append(history, [req |-> r, llm |-> None, resp |-> ClientError])
    /\ UNCHANGED <<dependency_graph, reverse_graph, unitVars>>

Velocity(s) ==
    /\ pc[s] = "velocity"
    /\ Goto(s, "delay", StepVelocity(loc[s], req[s]))
    /\ UNCHANGED <<dependency_graph, reverse_graph, req, unitVars>>

Delay(s) ==
    /\ pc[s] = "delay"
    /\ LET Outcome(delay) ==
               IF delay.error # None
               THEN Done(s, ServerError(delay.error)) /\ UNCHANGED loc
               ELSE Goto(s, "workload", StepDelay(loc[s], delay.value))
       IN  Outcome(PredictReleaseDelay(loc[s].sprints_needed, 1))
    /\ UNCHANGED <<dependency_graph, reverse_graph, req, unitVars>>

Workload(s) ==
    /\ pc[s] = "workload"
    /\ Goto(s, "graph", StepWorkload(loc[s], req[s]))
    /\ UNCHANGED <<dependency_graph, reverse_graph, req, unitVars>>

Graph(s) ==
    /\ pc[s] = "graph"
    /\ LET g == BuildDependencyGraph(req[s].tasks,
                    [dependency_graph |-> dependency_graph, reverse_graph |-> reverse_graph])
       IN  /\ dependency_graph' = g.dependency_graph
           /\ reverse_graph' = g.reverse_graph
    /\ Goto(s, "dep_risks", StepGraph(loc[s], req[s]))
    /\ UNCHANGED <<req, unitVars>>

DependencyRisks(s) ==
    /\ pc[s] = "dep_risks"
    /\ LET g == GraphsForRisks(req[s].tasks,
                    [dependency_graph |-> dependency_graph, reverse_graph |-> reverse_graph])
       IN  /\ dependency_graph' = g.dependency_graph
           /\ reverse_graph' = g.reverse_graph
           /\ Goto(s, "task_risks", StepDependencyRisks(loc[s], req[s], g))
    /\ UNCHANGED <<req, unitVars>>

TaskRisks(s) ==
    /\ pc[s] = "task_risks"
    /\ Goto(s, "recommend", StepTaskRisks(loc[s], req[s]))
    /\ UNCHANGED <<dependency_graph, reverse_graph, req, unitVars>>

Recommend(s) ==
    /\ pc[s] = "recommend"
    /\ LET Outcome(recs) ==
               IF recs.error # None
               THEN Done(s, ServerError(recs.error)) /\ UNCHANGED loc
               ELSE Goto(s, "summary", StepRecommend(loc[s], recs.recs))
       IN  Outcome(Recommendations(loc[s], req[s]))
    /\ UNCHANGED <<dependency_graph, reverse_graph, req, unitVars>>

\* the summary is generated and the response built and returned
Summary(s, llm) ==
    /\ pc[s] = "summary"
    /\ LET l == StepSummary(loc[s], req[s], llm) IN
       /\ loc' = [loc EXCEPT ![s] = l]
       /\ pc' = [pc EXCEPT ![s] = "done"]
       /\ LET response == IF l.ai_health_summary.kind = "error"
                          THEN ServerError("LLMError") ELSE Ok(l)
          IN  /\ resp' = [resp EXCEPT ![s] = response]
              /\ history' = Append(history, [req |-> req[s], llm |-> llm, resp |-> response])
    /\ UNCHANGED <<dependency_graph, reverse_graph, req, unitVars>>

Pipeline(s) ==
    \/ Velocity(s)
    \/ Delay(s)
    \/ Workload(s)
    \/ Graph(s)
    \/ DependencyRisks(s)
    \/ TaskRisks(s)
    \/ Recommend(s)
    \/ \E llm \in LLMOutcomes : Summary(s, llm)

InitSvc ==
    /\ dependency_graph = EmptyDict
    /\ reverse_graph = EmptyDict
    /\ pc = [s \in Slots |-> "idle"]
    /\ req = [s \in Slots |-> NoReq]
    /\ loc = [s \in Slots |-> NoLoc]
    /\ resp = [s \in Slots |-> NoResp]
    /\ history = <<>>

NoCall == [fn |-> None]

Init ==
    /\ InitSvc
    /\ args = NoCall
    /\ ret = NoCall

\* One request to a newly started service.
ReceiveFirst ==
    /\ history = <<>>
    /\ pc[1] = "idle"
    /\ \E r \in Requests : Receive(1, r)

Next ==
    \/ ReceiveFirst
    \/ Pipeline(1)

Spec == Init /\ [][Next]_vars

\* Up to MaxRuns requests handled one after the other: the handler is a
\* coroutine without an await, so the event loop runs it to its end before
\* it starts the next one.
ReceiveNext ==
    /\ Len(history) < MaxRuns
    /\ pc[1] \in {"idle", "done"}
    /\ \E r \in GraphRequests : Receive(1, r)

NextSerial ==
    \/ ReceiveNext
    \/ Pipeline(1)

SpecSerial == Init /\ [][NextSerial]_vars

\* Two requests whose pipeline steps interleave in any order.
ReceiveAny ==
    \E s \in Slots :
        /\ pc[s] = "idle"
        /\ \E r \in GraphRequests : Receive(s, r)

PipelineAny == \E s \in Slots : Pipeline(s)

NextInterleaved ==
    \/ ReceiveAny
    \/ PipelineAny

SpecInterleaved == Init /\ [][NextInterleaved]_vars

\* ------------------------------------------------- functions on their own
\* sprints_needed values: the sixteenths up to MaxSprintSixteenths
SprintValues == {Rat(e, 16) : e \in 0..MaxSprintSixteenths}

\* factor scores, with the ends of the range
FactorSamples == {0, 1, 2, 43, 100}

InitDelay ==
    /\ InitSvc
    /\ \/ args \in [fn : {"predict_release_delay"}, sprints_needed : SprintValues,
                    planned_sprints : 0..MaxPlanned]
       \/ \E n \in 0..MaxHistory :
          \E velocity_history \in [1..n -> {0, 8, 9, 10, 11, 12, 100, 105}] :
              args = [fn |-> "calculate_velocity_trend",
                      velocity_history |-> velocity_history]
    /\ ret = NoCall

CallPredictReleaseDelay ==
    /\ args.fn = "predict_release_delay"
    /\ ret = NoCall
    /\ LET r == PredictReleaseDelay(args.sprints_needed, args.planned_sprints)
       IN  ret' = [fn |-> args.fn, error |-> r.error, value |-> r.value]
    /\ UNCHANGED <<svcVars, args>>

CallCalculateVelocityTrend ==
    /\ args.fn = "calculate_velocity_trend"
    /\ ret = NoCall
    /\ ret' = [fn |-> args.fn,
               error |-> None,
               value |-> CalculateVelocityTrend(args.velocity_history)]
    /\ UNCHANGED <<svcVars, args>>

SpecDelay ==
    InitDelay /\ [][CallPredictReleaseDelay \/ CallCalculateVelocityTrend]_vars

InitRisk ==
    /\ InitSvc
    /\ args \in [fn : {"calculate_total_risk"}, deadline_risk : FactorSamples,
                 complexity_risk : FactorSamples, dependency_risk : FactorSamples,
                 overload_risk : FactorSamples, velocity_risk : FactorSamples]
    /\ ret = NoCall

CallCalculateTotalRisk ==
    /\ args.fn = "calculate_total_risk"
    /\ ret = NoCall
    /\ ret' = [fn |-> args.fn,
               value |-> CalculateTotalRisk(args.deadline_risk, args.complexity_risk,
                                            args.dependency_risk, args.overload_risk,
                                            args.velocity_risk)]
    /\ UNCHANGED <<svcVars, args>>

NextRisk == CallCalculateTotalRisk

SpecRisk == InitRisk /\ [][NextRisk]_vars

\* ------------------------------------------------- calculate_deadline_risk
\* A due date as the caller gives it: nothing, a text no format matches, or
\* a text naming the calendar day `day` and the time `secs` of that day.  A
\* moment is [day, secs]; SecondsPerDay is the 86400 of date_utils.
SecondsPerDay == 86400
Today == 100

\* parse_date: the date of the text, as strftime('%Y-%m-%d') prints it,
\* without the time of the day; <<>> is None
ParseDate(date_value) ==
    IF date_value.kind = "date" THEN <<date_value.day>> ELSE <<>>

\* datetime.replace(hour=0, minute=0, second=0, microsecond=0), in seconds
StartOfDayMut(seconds) == seconds
StartOfDay(seconds) == seconds - (seconds % SecondsPerDay)

\* days_until_date: <<>> is None, else <<delta.days>>; timedelta.days is
\* the floor of the difference in days
DaysUntilDate(date_value, from_date) ==
    LET Days(iso_date) ==
            IF iso_date = <<>> THEN <<>>
            ELSE LET target == StartOfDay(iso_date[1] * SecondsPerDay)
                     start == StartOfDay(from_date.day * SecondsPerDay + from_date.secs)
                 IN  <<(target - start) \div SecondsPerDay>>
    IN  Days(ParseDate(date_value))

\* the call is made at the start, in the middle or in the last second of
\* Today, for a due date up to MaxDaysOverdue days before and MaxDaysAhead
\* days after it
InitDeadline ==
    LET TimesOfDay == {0, 49507, SecondsPerDay - 1}
        DateValues ==
            {[kind |-> "missing"], [kind |-> "invalid"]}
            \cup [kind : {"date"},
                  day : (Today - MaxDaysOverdue)..(Today + MaxDaysAhead),
                  secs : TimesOfDay]
        Moments == [day : {Today}, secs : TimesOfDay]
    IN  /\ InitSvc
        /\ args \in [fn : {"calculate_deadline_risk"}, due_date : DateValues,
                     current_date : Moments]
        /\ ret = NoCall

\* "if not due_date" and "if days_until_due is None" both return 30
CallCalculateDeadlineRisk ==
    /\ args.fn = "calculate_deadline_risk"
    /\ ret = NoCall
    /\ ret' = [fn |-> args.fn,
               value |-> IF args.due_date.kind = "missing" THEN 30
                         ELSE CalculateDeadlineRisk(
                                  DaysUntilDate(args.due_date, args.current_date))]
    /\ UNCHANGED <<svcVars, args>>

SpecDeadline == InitDeadline /\ [][CallCalculateDeadlineRisk]_vars

\* ----------------------------------------------- calculate_dependency_risk
AllStatuses == {"todo", "in-progress", "done"}

\* dependency lists over two known ids and one that no task carries, and
\* the task_status_map, as the tasks it is built from
InitDependencyRisk ==
    LET DependencyIds == {"t1", "t2", "t9"}
        DependencySeqs == UNION {[1..n -> DependencyIds] : n \in 0..MaxDeps}
        StatusTasks ==
            {<<[id |-> "t1", status |-> s1], [id |-> "t2", status |-> s2]>> :
                s1 \in AllStatuses, s2 \in AllStatuses}
    IN  /\ InitSvc
        /\ args \in [fn : {"calculate_dependency_risk"}, dependencies : DependencySeqs,
                     tasks : StatusTasks]
        /\ ret = NoCall

CallCalculateDependencyRisk ==
    /\ args.fn = "calculate_dependency_risk"
    /\ ret = NoCall
    /\ ret' = [fn |-> args.fn,
               value |-> CalculateDependencyRisk(args.dependencies, args.tasks)]
    /\ UNCHANGED <<svcVars, args>>

SpecDependencyRisk == InitDependencyRisk /\ [][CallCalculateDependencyRisk]_vars

\* ------------------------- detect_blocked_tasks, analyze_dependency_risks
\* task lists for the dependency analyzer alone. For the blocked tasks and
\* the risks the i-th task has the i-th id, any status, and dependencies
\* among known ids, an unknown id and a repeated id. For the search for
\* cycles the ids are the first n ids in any order, every task is todo, and
\* a task depends on nothing, on one task (itself included), on an unknown
\* id, or on two tasks.
ListedDependencies == {<<>>, <<"t1">>, <<"t9">>, <<"t1", "t2">>, <<"t2", "t2">>}

InitDependencies ==
    LET Task(id, status, dependencies) ==
            [id |-> id, assignee |-> None, dueDate |-> <<>>, storyPoints |-> 3,
             status |-> status, dependencies |-> dependencies]
        CycleDependencies ==
            {<<>>, <<"t9">>, <<"t2", "t3">>} \cup {<<IdNames[i]>> : i \in 1..MaxCycle}
        Orders(n) == {q \in [1..n -> 1..n] : \A i, j \in 1..n : q[i] = q[j] => i = j}
        ChainDependencies ==
            {<<>>, <<"t1">>, <<"t2">>, <<"t3">>, <<"t2", "t3">>, <<"t3", "t2">>, <<"t9">>}
    IN  /\ InitSvc
        /\ \/ \E n \in 0..MaxListed :
              \E f \in [1..n -> [status : AllStatuses, dependencies : ListedDependencies]] :
              \E fn \in {"detect_blocked_tasks", "analyze_dependency_risks"} :
                 args = [fn |-> fn,
                         tasks |-> [i \in 1..n |->
                                       Task(IdNames[i], f[i].status, f[i].dependencies)]]
           \/ \E n \in 0..MaxCycle :
              \E p \in Orders(n) : \E f \in [1..n -> CycleDependencies] :
                 args = [fn |-> "detect_circular_dependencies",
                         tasks |-> [i \in 1..n |-> Task(IdNames[p[i]], "todo", f[i])]]
           \/ \E n \in 0..MaxChained : \E f \in [1..n -> ChainDependencies] :
              \E task_id \in {None, "t1", "t2", "t9"} :
                 args = [fn |-> IF task_id = None THEN "find_critical_path"
                                ELSE "calculate_dependency_depth",
                         task_id |-> task_id,
                         tasks |-> [i \in 1..n |-> Task(IdNames[i], "todo", f[i])]]
        /\ ret = NoCall

CallDetectBlockedTasks ==
    /\ args.fn = "detect_blocked_tasks"
    /\ ret = NoCall
    /\ ret' = [fn |-> args.fn, value |-> DetectBlockedTasks(args.tasks)]
    /\ UNCHANGED <<svcVars, args>>

\* analyze_dependency_risks rebuilds the two graphs of the analyzer and
\* reads the reverse graph
CallAnalyzeDependencyRisks ==
    /\ args.fn = "analyze_dependency_risks"
    /\ ret = NoCall
    /\ LET Analysed(g) ==
               /\ dependency_graph' = g.dependency_graph
               /\ reverse_graph' = g.reverse_graph
               /\ ret' = [fn |-> args.fn,
                          value |-> DependencyRisksOver(args.tasks, g.reverse_graph)]
       IN  Analysed(GraphsForRisks(args.tasks,
                        [dependency_graph |-> dependency_graph,
                         reverse_graph |-> reverse_graph]))
    /\ UNCHANGED <<pc, req, loc, resp, history, args>>

\* detect_circular_dependencies rebuilds the two graphs and searches the
\* dependency graph
CallDetectCircularDependencies ==
    /\ args.fn = "detect_circular_dependencies"
    /\ ret = NoCall
    /\ LET Searched(g, st) ==
               /\ dependency_graph' = g.dependency_graph
               /\ reverse_graph' = g.reverse_graph
               /\ ret' = [fn |-> args.fn, error |-> st.raised, value |-> st.cycles]
           Built(g) == Searched(g, DetectCircularDependencies(args.tasks, g.dependency_graph))
       IN  Built(BuildDependencyGraph(args.tasks,
                     [dependency_graph |-> dependency_graph,
                      reverse_graph |-> reverse_graph]))
    /\ UNCHANGED <<pc, req, loc, resp, history, args>>

\* calculate_dependency_depth and find_critical_path build no graph: they
\* read the one the analyzer holds, empty in a new analyzer, or built from
\* the tasks by a call of build_dependency_graph before
CallBuildDependencyGraph ==
    /\ args.fn \in {"calculate_dependency_depth", "find_critical_path"}
    /\ ret = NoCall
    /\ dependency_graph = EmptyDict
    /\ LET Built(g) == /\ dependency_graph' = g.dependency_graph
                       /\ reverse_graph' = g.reverse_graph
       IN  Built(BuildDependencyGraph(args.tasks,
                     [dependency_graph |-> dependency_graph,
                      reverse_graph |-> reverse_graph]))
    /\ UNCHANGED <<pc, req, loc, resp, history, args, ret>>

CallCalculateDependencyDepth ==
    /\ args.fn = "calculate_dependency_depth"
    /\ ret = NoCall
    /\ LET Returned(r) == ret' = [fn |-> args.fn, error |-> r.error, value |-> r.value]
       IN  Returned(CalculateDependencyDepth(dependency_graph, args.task_id,
                                             RecursionLimit))
    /\ UNCHANGED <<svcVars, args>>

CallFindCriticalPath ==
    /\ args.fn = "find_critical_path"
    /\ ret = NoCall
    /\ LET Returned(r) == ret' = [fn |-> args.fn, error |-> r.error, value |-> r.value]
       IN  Returned(FindCriticalPath(dependency_graph, args.tasks, RecursionLimit))
    /\ UNCHANGED <<svcVars, args>>

NextDependencies ==
    \/ CallDetectBlockedTasks
    \/ CallAnalyzeDependencyRisks
    \/ CallDetectCircularDependencies
    \/ CallBuildDependencyGraph
    \/ CallCalculateDependencyDepth
    \/ CallFindCriticalPath

SpecDependencies == InitDependencies /\ [][NextDependencies]_vars

\* ------------------- calculate_capacity_percentage, detect_overloaded_members
\* the two functions of the workload analyzer on their own: points and
\* capacities from 0, and workload dicts of up to MaxMembers distinct
\* assignees whose points put the percentage on both sides of each band
InitWorkload ==
    LET PointSamples == {0, 2, 100, 101, 120, 121, 150, 151}
        Names == {"ann", "bob", "Unassigned"}
        Workloads ==
            UNION {{w \in [1..n -> [assignee : Names, points : PointSamples]] :
                       \A i, j \in 1..n : w[i].assignee = w[j].assignee => i = j}
                   : n \in 0..MaxMembers}
        Teams == {<<>>,
                  <<[name |-> "ann", capacity |-> 100]>>,
                  <<[name |-> "ann", capacity |-> 0], [name |-> "bob", capacity |-> 3]>>}
    IN  /\ InitSvc
        /\ \/ args \in [fn : {"calculate_capacity_percentage"},
                        assigned_points : 0..MaxAssigned, capacity : 0..MaxCapacity]
           \/ args \in [fn : {"detect_overloaded_members"},
                        workload : Workloads, team_capacity : Teams]
        /\ ret = NoCall

CallCalculateCapacityPercentage ==
    /\ args.fn = "calculate_capacity_percentage"
    /\ ret = NoCall
    /\ ret' = [fn |-> args.fn,
               value |-> CalculateCapacityPercentage(args.assigned_points, args.capacity)]
    /\ UNCHANGED <<svcVars, args>>

CallDetectOverloadedMembers ==
    /\ args.fn = "detect_overloaded_members"
    /\ ret = NoCall
    /\ ret' = [fn |-> args.fn,
               value |-> DetectOverloadedMembers(args.workload, args.team_capacity)]
    /\ UNCHANGED <<svcVars, args>>

NextWorkload ==
    \/ CallCalculateCapacityPercentage
    \/ CallDetectOverloadedMembers

SpecWorkload == InitWorkload /\ [][NextWorkload]_vars

\* --------------------------------------------- generate_all_recommendations
\* generate_all_recommendations on its own. The i-th task has the i-th id and
\* one of four shapes, which between them call for every class of
\* recommendation: a large urgent complex task of ann that blocks another, a
\* small quiet task of ann, a small complex task of bob that blocks another,
\* a larger urgent task of bob. Nobody is analysed, or ann (and bob) are
\* overloaded next to: cat with much room; dan, who has room for 4 points at
\* 96 percent; cat with room for 10 points; cat and dan, the second with
\* more room; four members with room. The sprints needed are 1 or 3.
\* generate_priority_recommendations on its own: the i-th dependency risk is
\* of the i-th id and either qualifies (with two blocked tasks or one) or
\* misses one condition: it blocks nothing, its score is 50, its task's
\* total risk is 60, or its task has no risk entry. The risk entries come in
\* the reverse order of the dependency risks.
InitRecommendations ==
    LET Factors(d, c) == [deadline |-> d, complexity |-> c, dependency |-> 0,
                          overload |-> 0, velocity |-> 0]
        Shapes ==
            {[assignee |-> "ann", storyPoints |-> 20, score |-> 80,
              risk_factors |-> Factors(80, 80), blocking |-> TRUE],
             [assignee |-> "ann", storyPoints |-> 4, score |-> 20,
              risk_factors |-> Factors(0, 0), blocking |-> FALSE],
             [assignee |-> "bob", storyPoints |-> 4, score |-> 80,
              risk_factors |-> Factors(0, 80), blocking |-> TRUE],
             [assignee |-> "bob", storyPoints |-> 40, score |-> 40,
              risk_factors |-> Factors(80, 0), blocking |-> FALSE]}
        Task(i, sh) == [id |-> IdNames[i], assignee |-> sh.assignee, dueDate |-> <<>>,
                        storyPoints |-> sh.storyPoints, status |-> "todo",
                        dependencies |-> <<>>]
        Risk(i, sh) == [task_id |-> IdNames[i], total_risk_score |-> sh.score,
                        risk_level |-> CategorizeRiskLevel(sh.score),
                        risk_factors |-> sh.risk_factors, recommendations |-> <<>>]
        Blocking(i, sh) ==
            IF sh.blocking
            THEN <<[task_id |-> IdNames[i], blocked_by |-> <<"t7", "t8", "t9">>,
                    blocks |-> <<"t6">>, dependency_risk_score |-> 70]>>
            ELSE <<>>
        Load(assignee, points) == [assignee |-> assignee, points |-> points]
        Analyses ==
            {<<>>,
             DetectOverloadedMembers(<<Load("ann", 52), Load("bob", 50), Load("cat", 10)>>,
                                     <<>>),
             DetectOverloadedMembers(<<Load("ann", 52), Load("dan", 96)>>,
                                     <<[name |-> "dan", capacity |-> 100]>>),
             DetectOverloadedMembers(<<Load("ann", 52), Load("cat", 30)>>, <<>>),
             DetectOverloadedMembers(<<Load("ann", 52), Load("cat", 20), Load("dan", 10)>>,
                                     <<>>),
             DetectOverloadedMembers(<<Load("ann", 52), Load("bob", 50), Load("cat", 10),
                                       Load("dan", 12), Load("eve", 14), Load("fay", 16)>>,
                                     <<>>)}
        Entries ==
            {[blocks |-> <<"t8", "t9">>, dependency_risk_score |-> 51, total |-> 61],
             [blocks |-> <<"t9">>, dependency_risk_score |-> 70, total |-> 80],
             [blocks |-> <<>>, dependency_risk_score |-> 51, total |-> 61],
             [blocks |-> <<"t9">>, dependency_risk_score |-> 50, total |-> 61],
             [blocks |-> <<"t9">>, dependency_risk_score |-> 51, total |-> 60],
             [blocks |-> <<"t9">>, dependency_risk_score |-> 51, total |-> 0]}
        EntryRisk(i, e) == [task_id |-> IdNames[i], blocked_by |-> <<>>,
                            blocks |-> e.blocks,
                            dependency_risk_score |-> e.dependency_risk_score]
        EntryTask(i, e) ==
            IF e.total = 0 THEN <<>>
            ELSE <<[task_id |-> IdNames[i], total_risk_score |-> e.total,
                    risk_level |-> CategorizeRiskLevel(e.total),
                    risk_factors |-> Factors(0, 0), recommendations |-> <<>>]>>
    IN  /\ InitSvc
        /\ \/ \E n \in 0..MaxAdvised : \E f \in [1..n -> Shapes] :
              \E overload_analysis \in Analyses :
              \E sprints_needed \in {Rat(1, 1), Rat(3, 1)} :
                 args = [fn |-> "generate_all_recommendations",
                         overload_analysis |-> overload_analysis,
                         dependency_risks |-> Flatten([i \in 1..n |-> Blocking(i, f[i])]),
                         task_risk_analysis |-> [i \in 1..n |-> Risk(i, f[i])],
                         tasks |-> [i \in 1..n |-> Task(i, f[i])],
                         average_velocity |-> Rat(10, 1),
                         remaining_points |-> 30,
                         sprints_needed |-> sprints_needed]
           \/ \E n \in 0..MaxPrioritized : \E f \in [1..n -> Entries] :
                 args = [fn |-> "generate_priority_recommendations",
                         dependency_risks |-> [i \in 1..n |-> EntryRisk(i, f[i])],
                         task_risk_analysis |->
                             Flatten([i \in 1..n |-> EntryTask(n + 1 - i, f[n + 1 - i])])]
        /\ ret = NoCall

CallGenerateAllRecommendations ==
    /\ args.fn = "generate_all_recommendations"
    /\ ret = NoCall
    /\ LET Returned(r) == ret' = [fn |-> args.fn, error |-> r.error, value |-> r.recs]
       IN  Returned(GenerateAllRecommendations(args.overload_analysis, args.dependency_risks,
                                               args.task_risk_analysis, args.tasks,
                                               args.average_velocity, args.remaining_points,
                                               args.sprints_needed))
    /\ UNCHANGED <<svcVars, args>>

CallGeneratePriorityRecommendations ==
    /\ args.fn = "generate_priority_recommendations"
    /\ ret = NoCall
    /\ ret' = [fn |-> args.fn,
               error |-> None,
               value |-> GeneratePriorityRecommendations(args.dependency_risks,
                                                         args.task_risk_analysis)]
    /\ UNCHANGED <<svcVars, args>>

NextRecommendations ==
    \/ CallGenerateAllRecommendations
    \/ CallGeneratePriorityRecommendations

SpecRecommendations == InitRecommendations /\ [][NextRecommendations]_vars

\* ------------------------------------------------- _identify_critical_issues
\* _identify_critical_issues on its own. Each rated task is critical and not
\* complex (score 70, complexity 70), complex and not critical (69, 71), or
\* both. Nobody is analysed, or ann alone at 150 or at 152 percent. The
\* blocked tasks are the first tasks by id; the predicted delay is 7 or 8.
InitCriticalIssues ==
    LET Ratings == {[score |-> 70, complexity |-> 70],
                    [score |-> 69, complexity |-> 71],
                    [score |-> 80, complexity |-> 80]}
        Risk(i, r) == [task_id |-> IdNames[i], total_risk_score |-> r.score,
                       risk_level |-> CategorizeRiskLevel(r.score),
                       risk_factors |-> [deadline |-> 0, complexity |-> r.complexity,
                                         dependency |-> 0, overload |-> 0,
                                         velocity |-> 0],
                       recommendations |-> <<>>]
        Analyses ==
            {<<>>,
             DetectOverloadedMembers(<<[assignee |-> "ann", points |-> 60]>>, <<>>),
             DetectOverloadedMembers(<<[assignee |-> "ann", points |-> 61]>>, <<>>)}
    IN  /\ InitSvc
        /\ \E n \in 0..MaxRated : \E f \in [1..n -> Ratings] :
           \E overload_analysis \in Analyses : \E k \in 0..MaxBlocked :
           \E predicted_delay \in {7, 8} :
              args = [fn |-> "_identify_critical_issues",
                      task_risk_analysis |-> [i \in 1..n |-> Risk(i, f[i])],
                      overload_analysis |-> overload_analysis,
                      blocked_tasks |-> [i \in 1..k |-> IdNames[i]],
                      predicted_delay |-> predicted_delay]
        /\ ret = NoCall

CallIdentifyCriticalIssues ==
    /\ args.fn = "_identify_critical_issues"
    /\ ret = NoCall
    /\ ret' = [fn |-> args.fn,
               value |-> IdentifyCriticalIssues(args.task_risk_analysis,
                                                args.overload_analysis,
                                                args.blocked_tasks,
                                                args.predicted_delay)]
    /\ UNCHANGED <<svcVars, args>>

SpecCriticalIssues == InitCriticalIssues /\ [][CallIdentifyCriticalIssues]_vars

\* ------------------------------------------------------------ properties
\* the steps of analyze_planning, in the order of its statements
AllSteps ==
    <<"velocity", "delay", "workload", "graph", "dep_risks", "task_risks",
      "recommend", "summary">>

\* C1: every request with a non-empty task list, whatever its team_capacity
\* and velocity_history, is answered with a full report after every step of
\* analyze_planning has run; no step ends in an error.
C1_FullReportForEveryTaskList ==
    \A s \in Slots :
        (pc[s] = "done" /\ req[s].tasks # <<>>)
            => (resp[s].status = 200 /\ loc[s].trace = AllSteps)

\* C2: a request with an empty task list is answered with the client error
\* before any step of analyze_planning has run, and the answer holds no
\* report.
C2_EmptyTaskListRejected ==
    \A s \in Slots :
        (pc[s] # "idle" /\ req[s].tasks = <<>>)
            => /\ pc[s] = "done"
               /\ loc[s].trace = <<>>
               /\ resp[s].status = 400
               /\ DOMAIN resp[s].body = {"detail"}

C2_RejectedReached ==
    /\ pc[1] = "done"
    /\ req[1].tasks = <<>>
    /\ resp[1] = ClientError
    /\ history # <<>>

\* C3: when the text-generation call fails in the summary step, the request
\* is still answered with the full report, every field computed before the
\* step is in it unchanged, and the summary is the fallback sentence built
\* from the overall score, the risk level, the counts of high-risk tasks,
\* overloaded members and blocked tasks, and the predicted delay.
C3_FailedSummaryFallsBack ==
    [][\A s \in Slots :
          (pc[s] = "summary" /\ pc'[s] = "done" /\ loc'[s].llm = "fail") =>
              LET l == loc[s]
                  b == resp'[s].body
                  high == Cardinality({i \in DOMAIN l.task_risk_analysis :
                              l.task_risk_analysis[i].risk_level \in {"critical", "high"}})
                  over == Cardinality({i \in DOMAIN l.overload_analysis :
                              l.overload_analysis[i].is_overloaded})
                  blocked == Len(l.blocked_tasks)
              IN  /\ resp'[s].status = 200
                  /\ b.overall_risk_score = l.overall_risk_score
                  /\ b.risk_level = l.overall_risk_level
                  /\ b.predicted_release_delay_days = l.predicted_delay
                  /\ b.average_velocity = l.average_velocity
                  /\ b.sprint_capacity = l.sprint_capacity
                  /\ b.remaining_story_points = l.remaining_points
                  /\ b.sprints_needed = l.sprints_needed
                  /\ b.task_analysis = l.task_risk_analysis
                  /\ b.overload_analysis = l.overload_analysis
                  /\ b.dependency_risks = l.dependency_risks
                  /\ b.blocked_tasks = l.blocked_tasks
                  /\ b.recommendations = l.recommendations
                  /\ b.critical_issues = l.critical_issues
                  /\ b.ai_health_summary =
                        [kind |-> "fallback",
                         risk |-> l.overall_risk_level,
                         score |-> l.overall_risk_score,
                         concerns |->
                             (IF high > 0
                              THEN <<[what |-> "high-risk tasks", n |-> high]>>
                              ELSE <<>>)
                          \o (IF over > 0
                              THEN <<[what |-> "overloaded team members", n |-> over]>>
                              ELSE <<>>)
                          \o (IF blocked > 0
                              THEN <<[what |-> "blocked tasks", n |-> blocked]>>
                              ELSE <<>>),
                         delay |-> l.predicted_delay,
                         text |-> None]]_vars

C3_FallbackReached ==
    /\ pc[1] = "done"
    /\ loc[1].llm = "fail"
    /\ resp[1].status = 200
    /\ Len(resp[1].body.ai_health_summary.concerns) = 3
    /\ resp[1].body.ai_health_summary.delay > 0

\* C4: requests handled one after the other by the one service: equal
\* requests whose summary call failed get equal responses, whatever was
\* handled before them.
C4_RepeatedRequestSameReport ==
    \A i, j \in 1..Len(history) :
        (/\ history[i].req = history[j].req
         /\ history[i].llm = "fail"
         /\ history[j].llm = "fail")
            => history[i].resp = history[j].resp

C4_RepeatedReached ==
    /\ Len(history) >= 2
    /\ history[1].req = history[2].req
    /\ history[1].llm = "fail"
    /\ history[2].llm = "fail"
    /\ history[2].resp.status = 200
    /\ history[2].resp.body.dependency_risks # <<>>

C6_SprintsNeeded ==
    \A s \in Slots :
        (loc[s].trace # <<>>) =>
            LET l == loc[s]
                sn == l.sprints_needed
                avg == l.average_velocity
            IN  /\ avg.num > 0 =>
                      /\ sn.den > 0
                      /\ sn.num * avg.num = l.remaining_points * avg.den * sn.den
                /\ (avg.num = 0 /\ l.sprint_capacity > 0) =>
                      /\ sn.den > 0
                      /\ sn.num * l.sprint_capacity = l.remaining_points * sn.den
                /\ (avg.num = 0 /\ l.sprint_capacity = 0) => sn.den = 0
                /\ resp[s].status = 200 =>
                      /\ resp[s].body.sprints_needed = sn
                      /\ resp[s].body.average_velocity = avg
                      /\ resp[s].body.sprint_capacity = l.sprint_capacity
                      /\ resp[s].body.remaining_story_points = l.remaining_points

\* a report whose sprints_needed comes from the fallback divisor
C6_FallbackDivisorReached ==
    /\ resp[1].status = 200
    /\ resp[1].body.average_velocity.num = 0
    /\ resp[1].body.sprint_capacity > 0
    /\ resp[1].body.remaining_story_points > resp[1].body.sprint_capacity
    /\ resp[1].body.sprints_needed.num > resp[1].body.sprints_needed.den

\* C7: predict_release_delay returns 0 when sprints_needed <= planned_sprints
\* and otherwise the ceiling of (sprints_needed - planned_sprints) * 14, for
\* every finite sprints_needed.
C7_DelayIsCeiling ==
    ret # NoCall /\ args.fn = "predict_release_delay" =>
        LET n == args.sprints_needed.num
            d == args.sprints_needed.den
            p == args.planned_sprints
        IN  /\ ret.error = None
            /\ ret.value = IF n <= p * d THEN 0
                           ELSE (14 * (n - p * d) + d - 1) \div d

\* C8: calculate_total_risk returns the floor of 0.25 deadline + 0.25
\* complexity + 0.20 dependency + 0.20 overload + 0.10 velocity, capped at
\* 100, and the result lies in 0..100.
C8_TotalIsFloorOfWeightedSum ==
    ret # NoCall /\ args.fn = "calculate_total_risk" =>
        LET twentieths == 5 * args.deadline_risk + 5 * args.complexity_risk
                          + 4 * args.dependency_risk + 4 * args.overload_risk
                          + 2 * args.velocity_risk
        IN  /\ ret.value = Min(twentieths \div 20, 100)
            /\ ret.value \in 0..100

\* C9: in a report the overall risk score is the floor of the mean of the
\* tasks' total_risk_score, and every risk level, overall and per task, is
\* the band of its score: critical from 70, high from 50, moderate from 30,
\* low below.
C9_MeanAndBands ==
    \A s \in Slots :
        resp[s].status = 200 =>
            LET b == resp[s].body
                n == Len(b.task_analysis)
                total == SumSeq([i \in 1..n |-> b.task_analysis[i].total_risk_score])
                Band(score, level) ==
                    /\ level \in {"critical", "high", "moderate", "low"}
                    /\ level = "critical" <=> score >= 70
                    /\ level = "high" <=> (50 <= score /\ score < 70)
                    /\ level = "moderate" <=> (30 <= score /\ score < 50)
                    /\ level = "low" <=> score < 30
            IN  /\ n > 0
                /\ b.overall_risk_score * n <= total
                /\ total < (b.overall_risk_score + 1) * n
                /\ Band(b.overall_risk_score, b.risk_level)
                /\ \A i \in 1..n :
                      Band(b.task_analysis[i].total_risk_score,
                           b.task_analysis[i].risk_level)

\* a mean that is not whole, of scores one of which sits on the first score
\* of a band
C9_BandEdgeReached ==
    /\ resp[1].status = 200
    /\ Len(resp[1].body.task_analysis) = 2
    /\ (resp[1].body.task_analysis[1].total_risk_score
        + resp[1].body.task_analysis[2].total_risk_score) % 2 = 1
    /\ resp[1].body.task_analysis[1].total_risk_score \in {30, 50, 70}

\* C10: in a report the overload factor of a task is 40 when the task has no
\* assignee, and otherwise the band score of its assignee's workload
\* percentage (0 for a member with no open task): up to 70 -> 10, up to
\* 90 -> 30, up to 100 -> 50, up to 120 -> 75, above -> 95.
C10_OverloadFactorIsWorkloadBand ==
    \A s \in Slots :
        resp[s].status = 200 =>
            LET b == resp[s].body
                Pct(name) ==
                    IF \E i \in DOMAIN b.overload_analysis :
                           b.overload_analysis[i].assignee = name
                    THEN b.overload_analysis[
                             CHOOSE i \in DOMAIN b.overload_analysis :
                                 b.overload_analysis[i].assignee = name
                         ].workload_percentage
                    ELSE 0
                Score(pct) ==
                    IF pct <= 70 THEN 10
                    ELSE IF pct <= 90 THEN 30
                    ELSE IF pct <= 100 THEN 50
                    ELSE IF pct <= 120 THEN 75
                    ELSE 95
            IN  \A i \in DOMAIN b.task_analysis :
                    b.task_analysis[i].risk_factors.overload =
                        IF req[s].tasks[i].assignee = None THEN 40
                        ELSE Score(Pct(req[s].tasks[i].assignee))

\* C11: in a report the velocity factor of every task is 20 when the
\* velocity history is empty, and otherwise the band of the ratio of the
\* story points of the done tasks to the average velocity: 0 from 1.0, 30
\* from 0.8, 60 from 0.6, 90 below.
C11_VelocityFactor ==
    \A s \in Slots :
        resp[s].status = 200 =>
            LET b == resp[s].body
                tasks == req[s].tasks
                done == SumSeq([i \in 1..Len(tasks) |->
                                   IF tasks[i].status = "done"
                                   THEN tasks[i].storyPoints ELSE 0])
                avg == b.average_velocity
                expected ==
                    IF req[s].velocity_history = <<>> THEN 20
                    ELSE IF done * avg.den >= avg.num THEN 0
                    ELSE IF 5 * done * avg.den >= 4 * avg.num THEN 30
                    ELSE IF 5 * done * avg.den >= 3 * avg.num THEN 60
                    ELSE 90
            IN  \A i \in DOMAIN b.task_analysis :
                    b.task_analysis[i].risk_factors.velocity = expected

\* C12: calculate_deadline_risk returns 30 for a due date that is missing or
\* cannot be read, and otherwise the band of the whole days d from the
\* current date to the due date, whatever the times of the day: d < 0 ->
\* 100, d <= 2 -> 90, d <= 5 -> 70, d <= 10 -> 50, d <= 20 -> 30, else 10.
C12_DeadlineRiskByWholeDays ==
    (ret # NoCall /\ args.fn = "calculate_deadline_risk") =>
        ret.value =
            IF args.due_date.kind # "date" THEN 30
            ELSE LET d == args.due_date.day - args.current_date.day IN
                 IF d < 0 THEN 100
                 ELSE IF d <= 2 THEN 90
                 ELSE IF d <= 5 THEN 70
                 ELSE IF d <= 10 THEN 50
                 ELSE IF d <= 20 THEN 30
                 ELSE 10

\* due today, late in the day, asked in the afternoon: still 90
C12_DueTodayReached ==
    /\ ret # NoCall
    /\ args.fn = "calculate_deadline_risk"
    /\ args.due_date.kind = "date"
    /\ args.due_date.day = args.current_date.day
    /\ args.due_date.secs > args.current_date.secs
    /\ args.current_date.secs > 0
    /\ ret.value = 90

\* C13: calculate_dependency_risk returns 0 for no dependencies, and for n
\* dependencies of which b are not done (an id no task carries counting as
\* todo) the whole part of b * 100 / n, at most 100; the result lies in
\* 0..100 and is 0 when b = 0.
C13_DependencyRisk ==
    (ret # NoCall /\ args.fn = "calculate_dependency_risk") =>
        LET deps == args.dependencies
            n == Len(deps)
            Resolved(id) ==
                IF \E i \in DOMAIN args.tasks : args.tasks[i].id = id
                THEN (CHOOSE task \in {args.tasks[i] : i \in DOMAIN args.tasks} :
                          task.id = id).status
                ELSE "todo"
            b == Cardinality({i \in 1..n : Resolved(deps[i]) # "done"})
        IN  /\ n = 0 => ret.value = 0
            /\ n > 0 => ret.value = Min((100 * b) \div n, 100)
            /\ b = 0 => ret.value = 0
            /\ ret.value \in 0..100

\* three dependencies, one done, one in progress, one unknown: 66
C13_TwoOfThreeReached ==
    /\ ret # NoCall
    /\ args.fn = "calculate_dependency_risk"
    /\ args.dependencies = <<"t1", "t2", "t9">>
    /\ args.tasks[1].status = "done"
    /\ args.tasks[2].status = "in-progress"
    /\ ret.value = 66

\* the status a dependency id resolves to in a task list: that of the task
\* carrying the id, todo when there is none
ResolvedStatus(tasks, id) ==
    IF \E i \in DOMAIN tasks : tasks[i].id = id
    THEN (CHOOSE task \in {tasks[i] : i \in DOMAIN tasks} : task.id = id).status
    ELSE "todo"

\* the k-th smallest member of a set of indices
KthOf(indices, k) ==
    CHOOSE i \in indices : Cardinality({j \in indices : j <= i}) = k

\* C14: detect_blocked_tasks returns the ids of exactly the tasks that are
\* not done and have a dependency resolving to a status other than done (an
\* id of no task resolving to todo), each once, in input order.
C14_BlockedTasks ==
    (ret # NoCall /\ args.fn = "detect_blocked_tasks") =>
        LET tasks == args.tasks
            blocked == {i \in DOMAIN tasks :
                           /\ tasks[i].status # "done"
                           /\ \E j \in DOMAIN tasks[i].dependencies :
                                 ResolvedStatus(tasks, tasks[i].dependencies[j]) # "done"}
        IN  /\ Len(ret.value) = Cardinality(blocked)
            /\ \A k \in DOMAIN ret.value : ret.value[k] = tasks[KthOf(blocked, k)].id

\* a task blocked by an unknown id and by a repeated id is listed once, a
\* done task with an open dependency is not, a task whose only dependency
\* is done is not
C14_BlockedOnceReached ==
    /\ ret # NoCall
    /\ args.fn = "detect_blocked_tasks"
    /\ Len(args.tasks) = 3
    /\ args.tasks[1].status = "done" /\ args.tasks[1].dependencies = <<"t9">>
    /\ args.tasks[2].status = "todo" /\ args.tasks[2].dependencies = <<"t1">>
    /\ args.tasks[3].status = "in-progress" /\ args.tasks[3].dependencies = <<"t2", "t2">>
    /\ ret.value = <<"t3">>

\* how often an id occurs in a list of ids
Occurrences(ids, id) == Cardinality({j \in DOMAIN ids : ids[j] = id})

\* C15: analyze_dependency_risks lists a task exactly when it waits on a
\* dependency that is not done or some task depends on it, in input order;
\* blocked_by holds its dependencies that are not done, blocks one id for
\* every dependency of a task on it, and the score is 20 for each blocked_by
\* plus, when the task is not done, 10 for each blocks, at most 100.
C15_DependencyRiskEntries ==
    (ret # NoCall /\ args.fn = "analyze_dependency_risks") =>
        LET tasks == args.tasks
            Waits(i) == {j \in DOMAIN tasks[i].dependencies :
                            ResolvedStatus(tasks, tasks[i].dependencies[j]) # "done"}
            Dependents(i) ==
                SumSeq([k \in 1..Len(tasks) |->
                           Occurrences(tasks[k].dependencies, tasks[i].id)])
            listed == {i \in DOMAIN tasks : Waits(i) # {} \/ Dependents(i) > 0}
        IN  /\ Len(ret.value) = Cardinality(listed)
            /\ \A k \in DOMAIN ret.value :
                  LET e == ret.value[k]
                      i == KthOf(listed, k)
                  IN  /\ e.task_id = tasks[i].id
                      /\ Len(e.blocked_by) = Cardinality(Waits(i))
                      /\ \A id \in {e.blocked_by[j] : j \in DOMAIN e.blocked_by} :
                            /\ ResolvedStatus(tasks, id) # "done"
                            /\ Occurrences(e.blocked_by, id)
                                   = Occurrences(tasks[i].dependencies, id)
                      /\ Len(e.blocks) = Dependents(i)
                      /\ \A m \in DOMAIN tasks :
                            Occurrences(e.blocks, tasks[m].id)
                                = Occurrences(tasks[m].dependencies, tasks[i].id)
                      /\ e.dependency_risk_score =
                            Min(20 * Len(e.blocked_by)
                                + (IF tasks[i].status # "done"
                                   THEN 10 * Len(e.blocks) ELSE 0), 100)

\* two tasks that depend only on one todo task each report it with score 20
C15_SharedDependencyReached ==
    /\ ret # NoCall
    /\ args.fn = "analyze_dependency_risks"
    /\ Len(args.tasks) = 3
    /\ args.tasks[1].status = "todo" /\ args.tasks[1].dependencies = <<>>
    /\ args.tasks[2].dependencies = <<"t1">>
    /\ args.tasks[3].dependencies = <<"t1">>
    /\ Len(ret.value) = 3
    /\ ret.value[1].blocks = <<"t2", "t3">>
    /\ ret.value[2].blocked_by = <<"t1">> /\ ret.value[2].dependency_risk_score = 20
    /\ ret.value[3].blocked_by = <<"t1">> /\ ret.value[3].dependency_risk_score = 20
    /\ reverse_graph # EmptyDict

\* C16: detect_circular_dependencies returns no cycle for a task list whose
\* dependencies close no cycle, and for a list whose dependency graph is one
\* simple cycle through all its tasks it returns one cycle, closed on its
\* first node, whose nodes are exactly the tasks, whichever task is first.
C16_CircularDependencies ==
    (ret # NoCall /\ args.fn = "detect_circular_dependencies") =>
        LET tasks == args.tasks
            n == Len(tasks)
            ids == {tasks[i].id : i \in 1..n}
            Edge(a, b) == \E i \in 1..n :
                             /\ tasks[i].id = a
                             /\ \E j \in DOMAIN tasks[i].dependencies :
                                   tasks[i].dependencies[j] = b
            Closed(k) == \E w \in [1..k -> ids] :
                            /\ \A i \in 1..(k - 1) : Edge(w[i], w[i + 1])
                            /\ Edge(w[k], w[1])
            acyclic == \A k \in 1..n : ~Closed(k)
            simple == /\ n > 0
                      /\ \A i \in 1..n : Len(tasks[i].dependencies) = 1
                      /\ \E w \in [1..n -> ids] :
                            /\ \A i, j \in 1..n : w[i] = w[j] => i = j
                            /\ \A i \in 1..(n - 1) : Edge(w[i], w[i + 1])
                            /\ Edge(w[n], w[1])
        IN  /\ acyclic => ret.error = None /\ ret.value = <<>>
            /\ simple =>
                  /\ ret.error = None
                  /\ Len(ret.value) = 1
                  /\ {ret.value[1][i] : i \in DOMAIN ret.value[1]} = ids
                  /\ Len(ret.value[1]) = n + 1
                  /\ ret.value[1][1] = ret.value[1][n + 1]

\* the cycle t1 -> t2 -> t3 -> t1 listed from t2 is found from t2
C16_CycleFromSecondReached ==
    /\ ret # NoCall
    /\ args.fn = "detect_circular_dependencies"
    /\ Len(args.tasks) = 3
    /\ args.tasks[1].id = "t2" /\ args.tasks[1].dependencies = <<"t3">>
    /\ args.tasks[2].id = "t3" /\ args.tasks[2].dependencies = <<"t1">>
    /\ args.tasks[3].id = "t1" /\ args.tasks[3].dependencies = <<"t2">>
    /\ ret.error = None
    /\ ret.value = << <<"t2", "t3", "t1", "t2">> >>
    /\ "t2" \in DOMAIN dependency_graph

\* C17: calculate_capacity_percentage returns assigned / capacity * 100
\* rounded to the nearest whole number (a half to the even one) when the
\* capacity is positive, 0 when capacity and assigned are both 0, and 999
\* when the capacity is 0 and something is assigned.
C17_CapacityPercentage ==
    (ret # NoCall /\ args.fn = "calculate_capacity_percentage") =>
        LET a == args.assigned_points
            c == args.capacity
            whole == (100 * a) \div c
            twice == 2 * ((100 * a) % c)
            rounded == IF twice > c \/ (twice = c /\ whole % 2 = 1)
                       THEN whole + 1 ELSE whole
        IN  ret.value = (IF c > 0 THEN rounded ELSE IF a = 0 THEN 0 ELSE 999)

\* C18: in every entry of detect_overloaded_members the severity is none up
\* to 100 percent, moderate from 101 to 120, high from 121 to 150 and
\* critical from 151, and is_overloaded holds exactly above 100 percent,
\* that is exactly when the severity is not none.
C18_SeverityBands ==
    (ret # NoCall /\ args.fn = "detect_overloaded_members") =>
        \A i \in DOMAIN ret.value :
            LET e == ret.value[i]
                w == e.workload_percentage
            IN  /\ e.overload_severity =
                      (IF w <= 100 THEN "none"
                       ELSE IF w \in 101..120 THEN "moderate"
                       ELSE IF w \in 121..150 THEN "high"
                       ELSE "critical")
                /\ e.is_overloaded <=> w > 100
                /\ e.is_overloaded <=> e.overload_severity # "none"

\* a member of capacity 0 with points is at the sentinel and critical, next
\* to a member at exactly 120 percent who is moderate
C18_SentinelAndBoundaryReached ==
    /\ ret # NoCall
    /\ args.fn = "detect_overloaded_members"
    /\ Len(ret.value) = 2
    /\ ret.value[1].capacity = 0
    /\ ret.value[1].workload_percentage = 999
    /\ ret.value[1].overload_severity = "critical"
    /\ ret.value[1].is_overloaded
    /\ \E i \in DOMAIN args.workload :
          /\ args.workload[i].assignee = "bob"
          /\ args.workload[i].points = 2
    /\ ret.value[2].workload_percentage = 66
    /\ ret.value[2].overload_severity = "none"
    /\ ~ret.value[2].is_overloaded

\* C19: the overload analysis of a report has one entry for every assignee
\* who owns a task that is not done, and no other entry; the entry's
\* assigned_points is the sum of the story points of that assignee's tasks
\* that are not done, and its capacity is the member's declared capacity, or
\* 40 when team_capacity does not name the member. Tasks without assignee
\* are summed under 'Unassigned', which has no entry.
C19_OneEntryPerAssignee ==
    \A s \in Slots :
        resp[s].status = 200 =>
            LET tasks == req[s].tasks
                team == req[s].team_capacity
                analysis == resp[s].body.overload_analysis
                open == {i \in DOMAIN tasks : tasks[i].status # "done"}
                owners == {tasks[i].assignee : i \in open} \ {None}
                PointsOf(a) == SumSeq([i \in 1..Len(tasks) |->
                                          IF i \in open /\ tasks[i].assignee = a
                                          THEN tasks[i].storyPoints ELSE 0])
                workload == CalculateWorkloadDistribution(tasks)
            IN  /\ Len(analysis) = Cardinality(owners)
                /\ {analysis[i].assignee : i \in DOMAIN analysis} = owners
                /\ \A i \in DOMAIN analysis :
                      LET e == analysis[i]
                          declared == {j \in DOMAIN team : team[j].name = e.assignee}
                      IN  /\ e.assigned_points = PointsOf(e.assignee)
                          /\ \A j \in declared : e.capacity = team[j].capacity
                          /\ declared = {} => e.capacity = 40
                /\ (\E i \in open : tasks[i].assignee = None) <=>
                       (\E k \in DOMAIN workload : workload[k].assignee = "Unassigned")
                /\ \A k \in DOMAIN workload :
                      workload[k].assignee = "Unassigned" =>
                          workload[k].points = PointsOf(None)

\* a report on an unassigned open task and an open task of bob, who is
\* declared with capacity 10: one entry, for bob
C19_OnlyOwnerListedReached ==
    \E s \in Slots :
        /\ resp[s].status = 200
        /\ Len(req[s].tasks) = 2
        /\ req[s].tasks[1].assignee = None /\ req[s].tasks[1].status = "todo"
        /\ req[s].tasks[2].assignee = "bob" /\ req[s].tasks[2].status = "todo"
        /\ req[s].tasks[2].storyPoints = 60
        /\ req[s].team_capacity # <<>>
        /\ Len(resp[s].body.overload_analysis) = 1
        /\ resp[s].body.overload_analysis[1].assignee = "bob"
        /\ resp[s].body.overload_analysis[1].assigned_points = 60
        /\ resp[s].body.overload_analysis[1].capacity = 10

\* C20: in the list generate_all_recommendations returns no recommendation
\* comes before one of a higher priority (critical, high, medium, low);
\* among recommendations of one priority those of an earlier class come
\* first, the classes being work distribution, reassignment, prioritization,
\* complexity breakdown, deadline adjustment, scope adjustment; and the
\* recommendations of each class are those its generator produced, in the
\* order it produced them.
C20_PriorityThenGenerationOrder ==
    (ret # NoCall /\ args.fn = "generate_all_recommendations" /\ ret.error = None) =>
        LET recs == ret.value
            Rank(p) == CASE p = "critical" -> 0 [] p = "high" -> 1
                         [] p = "medium" -> 2 [] p = "low" -> 3
            Class(t) == CASE t = "work_distribution" -> 1 [] t = "reassignment" -> 2
                          [] t = "prioritization" -> 3 [] t = "task_breakdown" -> 4
                          [] t = "deadline_adjustment" -> 5 [] t = "scope_adjustment" -> 6
            OfClass(k) == LET Is(r) == Class(r.type) = k IN SelectSeq(recs, Is)
            team == [i \in 1..Len(args.overload_analysis) |->
                        [name |-> args.overload_analysis[i].assignee,
                         velocity_multiplier |-> Rat(1, 1)]]
        IN  /\ \A i, j \in DOMAIN recs :
                  i < j => /\ Rank(recs[i].priority) <= Rank(recs[j].priority)
                           /\ recs[i].priority = recs[j].priority =>
                                  Class(recs[i].type) <= Class(recs[j].type)
            /\ OfClass(1) = GenerateWorkDistributionRecommendations(
                                args.overload_analysis, args.tasks,
                                args.task_risk_analysis, team).recs
            /\ OfClass(2) = GenerateReassignmentRecommendations(args.overload_analysis,
                                                                args.tasks)
            /\ OfClass(3) = GeneratePriorityRecommendations(args.dependency_risks,
                                                            args.task_risk_analysis)
            /\ OfClass(4) = GenerateComplexityRecommendations(args.task_risk_analysis)
            /\ OfClass(5) = GenerateDeadlineRecommendations(args.task_risk_analysis)
            /\ OfClass(6) = GenerateVelocityRecommendations(
                                args.average_velocity, args.remaining_points,
                                args.sprints_needed).recs

\* a list with all six classes: both critical classes, then both high
\* classes, then both medium classes, two recommendations in three of
\* them, the reassignments in the order of the overloaded members
C20_AllClassesReached ==
    /\ ret # NoCall
    /\ args.fn = "generate_all_recommendations"
    /\ ret.error = None
    /\ [i \in DOMAIN ret.value |-> ret.value[i].type] =
          <<"prioritization", "prioritization", "scope_adjustment",
            "work_distribution", "deadline_adjustment",
            "reassignment", "reassignment", "task_breakdown", "task_breakdown">>
    /\ ret.value[1].affected_tasks[1] = "t1"
    /\ ret.value[2].affected_tasks[1] = "t2"
    /\ ret.value[6].affected_tasks = <<"t3">>
    /\ ret.value[7].affected_tasks = <<"t2">>

\* C21: in every work-distribution recommendation for a task of p story
\* points the owner keeps max(2, round(p / 4)) points, and each helper in
\* turn receives min(max(3, round(remaining * velocity / 2)), spare
\* capacity, remaining) points, remaining being the pool left before that
\* helper; generate_all_recommendations gives every helper the velocity 1.
C21_SplitAmounts ==
    (ret # NoCall /\ args.fn = "generate_all_recommendations" /\ ret.error = None) =>
        \A i \in DOMAIN ret.value :
            ret.value[i].type = "work_distribution" =>
                LET d == ret.value[i].detail
                    t == CHOOSE j \in DOMAIN args.tasks :
                             args.tasks[j].id = ret.value[i].affected_tasks[1]
                    p == args.tasks[t].storyPoints
                    Round(n, m) ==
                        IF 2 * (n % m) > m \/ (2 * (n % m) = m /\ (n \div m) % 2 = 1)
                        THEN (n \div m) + 1 ELSE n \div m
                    Spare(name) ==
                        LET m == CHOOSE j \in DOMAIN args.overload_analysis :
                                     args.overload_analysis[j].assignee = name
                        IN  args.overload_analysis[m].capacity
                            - args.overload_analysis[m].assigned_points
                    Before(k) == p - d.original_keeps
                                 - SumSeq([j \in 1..(k - 1) |-> d.helpers[j].points])
                IN  /\ d.original_keeps = Max(2, Round(p, 4))
                    /\ \A k \in DOMAIN d.helpers :
                          d.helpers[k].points =
                              Min3(Max(3, Round(Before(k), 2)),
                                   Spare(d.helpers[k].name), Before(k))

\* C22: for every member above 90 percent and every task of that member that
\* is not done and has at least 8 story points, a work-distribution
\* recommendation for the task is in the list whenever another analysed
\* member has 3 or more points of spare capacity; it names at most 3
\* helpers, none of them the owner, in descending order of spare capacity
\* (times the velocity 1 that generate_all_recommendations gives everyone).
C22_DistributionEmitted ==
    (ret # NoCall /\ args.fn = "generate_all_recommendations" /\ ret.error = None) =>
        LET analysis == args.overload_analysis
            SpareAt(m) == analysis[m].capacity - analysis[m].assigned_points
            Spare(name) == SpareAt(CHOOSE j \in DOMAIN analysis : analysis[j].assignee = name)
            For(id) == {i \in DOMAIN ret.value :
                           /\ ret.value[i].type = "work_distribution"
                           /\ ret.value[i].affected_tasks = <<id>>}
        IN  \A m \in DOMAIN analysis : \A t \in DOMAIN args.tasks :
                (/\ analysis[m].workload_percentage > 90
                 /\ args.tasks[t].assignee = analysis[m].assignee
                 /\ args.tasks[t].status # "done"
                 /\ args.tasks[t].storyPoints >= 8
                 /\ \E o \in DOMAIN analysis : o # m /\ SpareAt(o) >= 3)
                => /\ For(args.tasks[t].id) # {}
                   /\ \A i \in For(args.tasks[t].id) :
                         LET helpers == ret.value[i].detail.helpers
                         IN  /\ Len(helpers) <= 3
                             /\ \A k \in DOMAIN helpers :
                                   helpers[k].name # analysis[m].assignee
                             /\ \A k \in 1..(Len(helpers) - 1) :
                                   Spare(helpers[k].name) >= Spare(helpers[k + 1].name)

\* C30: over all work-distribution recommendations of one list the points
\* given to one helper add up to no more than the helper's spare capacity;
\* in each recommendation the points the owner keeps and the helpers'
\* points together do not exceed the task's story points, every helper
\* gets at least 3 points, and the owner is not a helper.
C30_AllocationsWithinSpare ==
    (ret # NoCall /\ args.fn = "generate_all_recommendations" /\ ret.error = None) =>
        LET analysis == args.overload_analysis
            work == {i \in DOMAIN ret.value : ret.value[i].type = "work_distribution"}
            Given(i, name) ==
                SumSeq([k \in 1..Len(ret.value[i].detail.helpers) |->
                           IF ret.value[i].detail.helpers[k].name = name
                           THEN ret.value[i].detail.helpers[k].points ELSE 0])
            Points(id) == args.tasks[CHOOSE j \in DOMAIN args.tasks :
                                         args.tasks[j].id = id].storyPoints
            Total(name) == SumSeq([i \in 1..Len(ret.value) |->
                                      IF i \in work THEN Given(i, name) ELSE 0])
        IN  /\ \A m \in DOMAIN analysis :
                  Total(analysis[m].assignee) > 0 =>
                      Total(analysis[m].assignee)
                          <= analysis[m].capacity - analysis[m].assigned_points
            /\ \A i \in work :
                  LET d == ret.value[i].detail
                  IN  /\ d.original_keeps
                         + SumSeq([k \in 1..Len(d.helpers) |-> d.helpers[k].points])
                             <= Points(ret.value[i].affected_tasks[1])
                      /\ \A k \in DOMAIN d.helpers :
                            d.helpers[k].points >= 3 /\ d.helpers[k].name # d.owner


\* C23: the reassignment recommendations of a list are, one for each
\* analysed member above 120 percent that owns a todo task of 3 to 5 story
\* points, a move of one such task alone to a member below 60 percent such
\* that no other member below 60 percent has more spare capacity or a lower
\* load; there is none when no member is below 60 percent.
C23_ReassignToMostAvailable ==
    (ret # NoCall /\ args.fn = "generate_all_recommendations" /\ ret.error = None) =>
        LET analysis == args.overload_analysis
            SpareAt(m) == analysis[m].capacity - analysis[m].assigned_points
            under == {m \in DOMAIN analysis : analysis[m].workload_percentage < 60}
            Small(name) == {t \in DOMAIN args.tasks :
                               /\ args.tasks[t].assignee = name
                               /\ args.tasks[t].status = "todo"
                               /\ 3 <= args.tasks[t].storyPoints
                               /\ args.tasks[t].storyPoints <= 5}
            From(name) == {i \in DOMAIN ret.value :
                              /\ ret.value[i].type = "reassignment"
                              /\ ret.value[i].detail.from = name}
            moves == {i \in DOMAIN ret.value : ret.value[i].type = "reassignment"}
        IN  /\ under = {} => moves = {}
            /\ \A i \in moves :
                  \E m \in DOMAIN analysis :
                      /\ analysis[m].assignee = ret.value[i].detail.from
                      /\ analysis[m].workload_percentage > 120
            /\ \A m \in DOMAIN analysis :
                  (/\ analysis[m].workload_percentage > 120
                   /\ Small(analysis[m].assignee) # {}
                   /\ under # {})
                  => /\ Cardinality(From(analysis[m].assignee)) = 1
                     /\ \A i \in From(analysis[m].assignee) :
                           /\ \E t \in Small(analysis[m].assignee) :
                                 ret.value[i].affected_tasks = <<args.tasks[t].id>>
                           /\ \E u \in under :
                                 /\ analysis[u].assignee = ret.value[i].detail.to
                                 /\ \A o \in under :
                                       /\ SpareAt(o) <= SpareAt(u)
                                       /\ analysis[o].workload_percentage
                                              >= analysis[u].workload_percentage


\* C24: generate_priority_recommendations returns one critical
\* 'prioritization' recommendation for each of the first 3 dependency risks,
\* in input order, that block at least one task, have a dependency risk
\* score above 50 and whose task has a total risk score above 60, and for no
\* other; its affected tasks are the task followed by the tasks it blocks.
C24_PrioritizesFirstThree ==
    (ret # NoCall /\ args.fn = "generate_priority_recommendations") =>
        LET risks == args.dependency_risks
            Total(id) == {args.task_risk_analysis[j].total_risk_score :
                             j \in {k \in DOMAIN args.task_risk_analysis :
                                        args.task_risk_analysis[k].task_id = id}}
            Qualifies(i) == /\ Len(risks[i].blocks) >= 1
                            /\ risks[i].dependency_risk_score > 50
                            /\ \E s \in Total(risks[i].task_id) : s > 60
            Earlier(i) == Cardinality({j \in 1..(i - 1) : Qualifies(j)})
            chosen == {i \in DOMAIN risks : Qualifies(i) /\ Earlier(i) < 3}
        IN  /\ Len(ret.value) = Cardinality(chosen)
            /\ \A i \in chosen :
                  ret.value[Earlier(i) + 1] =
                      [type |-> "prioritization",
                       priority |-> "critical",
                       affected_tasks |-> <<risks[i].task_id>> \o risks[i].blocks,
                       detail |-> [blocks |-> Len(risks[i].blocks)]]

C24_FourthLeftOut ==
    /\ ret # NoCall
    /\ args.fn = "generate_priority_recommendations"
    /\ Len(args.dependency_risks) = 4
    /\ \A i \in 1..4 : /\ Len(args.dependency_risks[i].blocks) = (i % 2) + 1
                       /\ args.dependency_risks[i].dependency_risk_score > 50
    /\ Len(args.task_risk_analysis) = 4
    /\ \A i \in 1..4 : args.task_risk_analysis[i].total_risk_score > 60
    /\ Len(ret.value) = 3
    /\ ret.value[3].affected_tasks = <<"t3", "t8", "t9">>


\* C25: the list of critical issues has exactly one entry for each of the
\* five conditions that holds (a task at critical risk level, a member above
\* 150 percent, more than 3 blocked tasks, a predicted delay above 7 days,
\* more than 5 tasks with a complexity factor above 70) and none for a
\* condition that does not hold; it is the one placeholder entry exactly
\* when no condition holds, and so is never empty.
C25_OneIssuePerCondition ==
    (ret # NoCall /\ args.fn = "_identify_critical_issues") =>
        LET rated == args.task_risk_analysis
            expected ==
                {"critical_risk_tasks" : i \in {j \in DOMAIN rated :
                                                   rated[j].risk_level = "critical"}}
                \cup {"severely_overloaded" :
                         i \in {j \in DOMAIN args.overload_analysis :
                                   args.overload_analysis[j].workload_percentage > 150}}
                \cup (IF Len(args.blocked_tasks) > 3 THEN {"blocked_tasks"} ELSE {})
                \cup (IF args.predicted_delay > 7 THEN {"release_delay"} ELSE {})
                \cup (IF Cardinality({j \in DOMAIN rated :
                                         rated[j].risk_factors.complexity > 70}) > 5
                      THEN {"high_complexity"} ELSE {})
            listed == {ret.value[i].issue : i \in DOMAIN ret.value}
        IN  /\ ret.value # <<>>
            /\ expected # {} => /\ listed = expected
                                /\ Len(ret.value) = Cardinality(expected)
            /\ (expected = {}) <=> (ret.value = <<[issue |-> "none", n |-> 0]>>)

C25_AllFiveListed ==
    /\ ret # NoCall
    /\ args.fn = "_identify_critical_issues"
    /\ Len(args.task_risk_analysis) = 6
    /\ Len(args.blocked_tasks) = 4
    /\ args.predicted_delay = 8
    /\ Len(ret.value) = 5
    /\ ret.value[5] = [issue |-> "high_complexity", n |-> 6]


\* C26: calculate_velocity_trend returns 'unknown' for a history of fewer
\* than 2 entries; for 2 or more entries, with m the mean of all entries
\* before the latest, it returns 'increasing' exactly when the latest is
\* above 1.1 m, 'decreasing' exactly when it is below 0.9 m, and 'stable'
\* otherwise.
C26_TrendWithinTenPercent ==
    (ret # NoCall /\ args.fn = "calculate_velocity_trend") =>
        LET h == args.velocity_history
            n == Len(h)
            prior == SumSeq(SubSeq(h, 1, n - 1))
        IN  /\ n < 2 => ret.value = "unknown"
            /\ n >= 2 =>
                  /\ ret.value \in {"increasing", "decreasing", "stable"}
                  /\ (ret.value = "increasing") <=> (10 * (n - 1) * h[n] > 11 * prior)
                  /\ (ret.value = "decreasing") <=> (10 * (n - 1) * h[n] < 9 * prior)


\* C27: detect_circular_dependencies completes without an error on every
\* task list, and every cycle it reports is a cycle of the dependency graph:
\* its first and last elements are equal and in each consecutive pair the
\* second is in the dependency list of the first.
C27_CyclesGenuineNoError ==
    (ret # NoCall /\ args.fn = "detect_circular_dependencies") =>
        LET tasks == args.tasks
            Edge(a, b) == \E i \in DOMAIN tasks :
                             /\ tasks[i].id = a
                             /\ \E j \in DOMAIN tasks[i].dependencies :
                                   tasks[i].dependencies[j] = b
        IN  /\ ret.error = None
            /\ \A c \in DOMAIN ret.value :
                  LET cycle == ret.value[c]
                  IN  /\ Len(cycle) >= 2
                      /\ cycle[1] = cycle[Len(cycle)]
                      /\ \A i \in 1..(Len(cycle) - 1) : Edge(cycle[i], cycle[i + 1])


\* C28: calculate_dependency_depth and find_critical_path return a result on
\* every graph the analyzer can hold, a graph with a cycle or a
\* self-dependency included: no call ends in an error of unbounded
\* recursion.
C28_DepthAndPathReturn ==
    (ret # NoCall /\ args.fn \in {"calculate_dependency_depth", "find_critical_path"})
        => ret.error = None


\* C29: when the dependency graph the analyzer holds is acyclic,
\* find_critical_path returns the empty list if no task has a dependency in
\* it, and otherwise a path of D + 1 elements, D being the greatest
\* dependency-chain depth of a task: the path starts at the first task in
\* input order of depth D, and each further element is the dependency of the
\* element before it that has the greatest depth, the first such in the
\* dependency list.
C29_CriticalPathFollowsDeepest ==
    LET g == dependency_graph
        Deps(a) == DictGet(g, a, <<>>)
        Succ(a) == {Deps(a)[i] : i \in DOMAIN Deps(a)}
        Nodes == (DOMAIN g) \cup UNION {Succ(a) : a \in DOMAIN g}
        N == Cardinality(Nodes)
        RECURSIVE Within(_, _)
        Within(a, k) == IF k = 0 THEN {a} ELSE UNION {Succ(b) : b \in Within(a, k - 1)}
        Depth(a) == CHOOSE k \in 0..N : /\ Within(a, k) # {}
                                        /\ \A m \in (k + 1)..N : Within(a, m) = {}
        acyclic == \A a \in Nodes : Within(a, N) = {}
        tasks == args.tasks
        path == ret.value
        Deepest(D) ==
            /\ \A i \in DOMAIN tasks : Depth(tasks[i].id) <= D
            /\ \E i \in DOMAIN tasks : Depth(tasks[i].id) = D
        Follows(D) ==
            /\ Len(path) = D + 1
            /\ \E i \in DOMAIN tasks :
                  /\ tasks[i].id = path[1]
                  /\ Depth(tasks[i].id) = D
                  /\ \A j \in 1..(i - 1) : Depth(tasks[j].id) < D
            /\ \A k \in 1..D :
                  \E j \in DOMAIN Deps(path[k]) :
                      /\ Deps(path[k])[j] = path[k + 1]
                      /\ \A m \in DOMAIN Deps(path[k]) :
                            Depth(Deps(path[k])[m]) <= Depth(path[k + 1])
                      /\ \A m \in 1..(j - 1) :
                            Depth(Deps(path[k])[m]) < Depth(path[k + 1])
    IN  (ret # NoCall /\ args.fn = "find_critical_path" /\ acyclic) =>
            /\ ret.error = None
            /\ (tasks = <<>> \/ Deepest(0)) => path = <<>>
            /\ \A D \in 1..N : Deepest(D) => Follows(D)

C29_DeeperSecondDependency ==
    /\ ret # NoCall
    /\ args.fn = "find_critical_path"
    /\ Len(args.tasks) = 3
    /\ args.tasks[1].dependencies = <<"t3", "t2">>
    /\ dependency_graph = [t1 |-> <<"t3", "t2">>, t2 |-> <<"t3">>, t3 |-> <<"t9">>]
    /\ ret.value = <<"t1", "t2", "t3", "t9">>

====
